---- MODULE Spec2Model ----
(***************************************************************************)
(* Model of the bearer-token gateway of datakwip_mcp:                      *)
(*   auth/cognito.py      validate_cognito_token, get_current_user         *)
(*   utils/validation.py  validate_jwt_token_format                        *)
(*   utils/errors.py      SecureErrorHandler                               *)
(*   config/settings.py   get_cognito_config                               *)
(*                                                                         *)
(* Text is modelled as a sequence of pieces (a URL is <<scheme, host       *)
(* pieces..., "/", path pieces...>>), so that startswith / substring /     *)
(* concatenation are computed and not assumed.  A JWT is its three         *)
(* dot-separated segments, each with its alphabet check, its size and the  *)
(* content it decodes to.  The JWT library (PyJWT 2.x) is modelled by the  *)
(* order and the outcome of its checks.                                    *)
(***************************************************************************)
EXTENDS Integers, Sequences, FiniteSets, TLC

(* ------------------------------ bounds -------------------------------- *)

\* number of seconds the clock may advance during the model's run
MaxTick == 2

(* ------------------------- program constants -------------------------- *)

\* cognito.py:166  max_age = 3600 * 24
MaxAge == 86400

\* validation.py:34  len(token) > 10000
MaxTokenLen == 10000

\* the requests that arrive within one minute
MaxRequests == 7

\* the requests that are in flight at once
MaxInFlight == 2

\* the minutes the limiter's clock runs for
MaxMinute == 1

\* the contexts stored in a run of the /v1/contexts handlers
MaxContexts == 2

\* time of the first request (seconds); any value above MaxAge will do
Now0 == 100000

(* ------------------------------ text ---------------------------------- *)

Absent == "<absent>"      \* a claim / header field the JSON object lacks
NoTime == 0 - 1           \* the time of a check that has not run

StartsWith(s, prefix) ==
    /\ Len(s) >= Len(prefix)
    /\ \A i \in 1..Len(prefix) : s[i] = prefix[i]

Contains(s, piece) == \E i \in 1..Len(s) : s[i] = piece

(* --------------------------- configuration ---------------------------- *)

\* the environment the server is deployed with (settings.py reads os.getenv)
Env == [COGNITO_REGION       |-> "us-east-1",
        COGNITO_USER_POOL_ID |-> "pool-1",
        COGNITO_CLIENT_ID    |-> "client-1"]

JwksUrlOf(region, user_pool_id) ==
    <<"https://", "cognito-idp.", region, ".amazonaws.com", "/", user_pool_id,
      "/", ".well-known/jwks.json">>

get_cognito_config ==
    [user_pool_id |-> Env.COGNITO_USER_POOL_ID,
     client_id    |-> Env.COGNITO_CLIENT_ID,
     region       |-> Env.COGNITO_REGION,
     jwks_url     |-> JwksUrlOf(Env.COGNITO_REGION, Env.COGNITO_USER_POOL_ID)]

\* jwks_url values a caller of validate_cognito_token may pass in cognito_config
HttpJwksUrl ==
    <<"http://", "cognito-idp.", "us-east-1", ".amazonaws.com", "/", "pool-1",
      "/", ".well-known/jwks.json">>
ForeignJwksUrl ==
    <<"https://", "keys.attacker.example", "/", "pool-1", "/", ".well-known/jwks.json">>
LookalikeJwksUrl ==
    <<"https://", "cognito-idp.", "attacker.example", "/", ".amazonaws.com", "/",
      ".well-known/jwks.json">>

ConfigWith(url) == [get_cognito_config EXCEPT !.jwks_url = url]

Configs ==
    {get_cognito_config, ConfigWith(HttpJwksUrl), ConfigWith(ForeignJwksUrl),
     ConfigWith(LookalikeJwksUrl)}

\* cognito.py:112
IssuerOf(cfg) ==
    <<"https://", "cognito-idp.", cfg.region, ".amazonaws.com", "/", cfg.user_pool_id>>

(* ------------------------------ keys ---------------------------------- *)

\* A JWK as the key-set document lists it.  key names the public key; a
\* signature "made for" that name verifies under it.
CognitoJwks ==
    <<[kid |-> "k1", kty |-> "RSA", key |-> "pub_k1"],
      [kid |-> "k2", kty |-> "EC",  key |-> "pub_k2"]>>

\* what a host that is not the identity provider serves: its own key under
\* the identity provider's key id
AttackerJwks == <<[kid |-> "k1", kty |-> "RSA", key |-> "pub_attacker"]>>

\* the identity provider's key set after it has rotated its keys: k1 is
\* removed
RotatedJwks ==
    <<[kid |-> "k3", kty |-> "RSA", key |-> "pub_k3"],
      [kid |-> "k2", kty |-> "EC",  key |-> "pub_k2"]>>

NoKey == "<none>"

(* ------------------------------ tokens -------------------------------- *)

\* One dot-separated segment of the raw token: whether every character is in
\* [A-Za-z0-9_-], and its length.
Seg(alphabet, size) == [alphabet |-> alphabet, size |-> size]

OkShape      == <<Seg(TRUE, 100), Seg(TRUE, 300), Seg(TRUE, 342)>>
TwoSegShape  == <<Seg(TRUE, 100), Seg(TRUE, 300)>>
FourSegShape == <<Seg(TRUE, 100), Seg(TRUE, 300), Seg(TRUE, 342), Seg(TRUE, 4)>>
BadCharShape == <<Seg(TRUE, 100), Seg(FALSE, 300), Seg(TRUE, 342)>>
EmptySigShape == <<Seg(TRUE, 100), Seg(TRUE, 300), Seg(TRUE, 0)>>
MaxLenShape  == <<Seg(TRUE, 100), Seg(TRUE, MaxTokenLen - 444), Seg(TRUE, 342)>>
TooLongShape == <<Seg(TRUE, 100), Seg(TRUE, MaxTokenLen - 443), Seg(TRUE, 342)>>

Shapes ==
    {OkShape, TwoSegShape, FourSegShape, BadCharShape, EmptySigShape, MaxLenShape,
     TooLongShape}

GoodIss  == IssuerOf(get_cognito_config)
OtherIss == <<"https://", "cognito-idp.", "us-east-1", ".amazonaws.com", "/", "pool-2">>

\* the aud claim: a JSON string (one value) or a JSON array of strings
AudStr(s)    == [isList |-> FALSE, vals |-> {s}]
AudList(set) == [isList |-> TRUE, vals |-> set]
AudValues ==
    {AudStr("client-1"), AudStr("client-2"), AudStr(""),
     AudList({"client-1", "client-2"}), AudList({"client-2"}), AudList({})}

BaseHeader == [json |-> TRUE, alg |-> "RS256", kid |-> "k1"]

\* An access token as the identity provider issues it: no aud, a scope.
\* present is the set of claims the JSON object carries; a claim outside it
\* holds its empty value.
BaseClaims ==
    [json      |-> TRUE,
     present   |-> {"iss", "exp", "iat", "token_use", "scope", "sub"},
     iss       |-> GoodIss,
     aud       |-> AudList({}),
     exp       |-> Now0 + 3600,
     nbf       |-> 0,
     iat       |-> Now0 - 10,
     token_use |-> "access",
     scope     |-> <<"openid", "email">>,
     sub       |-> "u1"]

\* alg / key: the algorithm and the key the signature verifies under;
\* intact: the signature was made over exactly this header and payload
BaseSig == [alg |-> "RS256", key |-> "pub_k1", intact |-> TRUE]

BaseToken ==
    [shape |-> OkShape, header |-> BaseHeader, claims |-> BaseClaims, sig |-> BaseSig]

With(c, name, val) ==
    [[c EXCEPT !.present = c.present \cup {name}] EXCEPT
        !.iss       = IF name = "iss" THEN val ELSE @,
        !.aud       = IF name = "aud" THEN val ELSE @,
        !.exp       = IF name = "exp" THEN val ELSE @,
        !.nbf       = IF name = "nbf" THEN val ELSE @,
        !.iat       = IF name = "iat" THEN val ELSE @,
        !.token_use = IF name = "token_use" THEN val ELSE @,
        !.scope     = IF name = "scope" THEN val ELSE @,
        !.sub       = IF name = "sub" THEN val ELSE @]

Without(c, name) ==
    [[c EXCEPT !.present = c.present \ {name}] EXCEPT
        !.iss       = IF name = "iss" THEN <<>> ELSE @,
        !.aud       = IF name = "aud" THEN AudList({}) ELSE @,
        !.exp       = IF name = "exp" THEN 0 ELSE @,
        !.nbf       = IF name = "nbf" THEN 0 ELSE @,
        !.iat       = IF name = "iat" THEN 0 ELSE @,
        !.token_use = IF name = "token_use" THEN "" ELSE @,
        !.scope     = IF name = "scope" THEN <<>> ELSE @,
        !.sub       = IF name = "sub" THEN "" ELSE @]

ClaimNames == {"iss", "aud", "exp", "nbf", "iat", "token_use", "scope", "sub"}

\* the payloads that differ from c in one claim
ClaimVariants(c) ==
    {Without(c, n) : n \in ClaimNames}
    \cup {With(c, "iss", OtherIss)}
    \cup {With(c, "aud", a) : a \in AudValues}
    \cup {With(c, "exp", e) : e \in {Now0 - 1, Now0, Now0 + 1}}
    \cup {With(c, "nbf", n) : n \in {Now0 - 10, Now0 + 1, Now0 + 5}}
    \cup {With(c, "iat", i) : i \in {Now0 - MaxAge - 1, Now0 - MaxAge, Now0 + 1, Now0 + 5}}
    \cup {With(c, "token_use", u) : u \in {"id", "refresh"}}
    \cup {With(c, "scope", s) : s \in {<<"openid">>, <<"email", "openid", "profile">>}}
    \cup {With(c, "sub", s) : s \in {"", "u2"}}
    \cup {[c EXCEPT !.json = FALSE]}

\* the tokens that differ from t in one place
Variants(t) ==
    {[t EXCEPT !.shape = s] : s \in Shapes}
    \cup {[t EXCEPT !.header = h] :
            h \in {[json |-> FALSE, alg |-> "", kid |-> ""],
                   [BaseHeader EXCEPT !.kid = Absent],
                   [BaseHeader EXCEPT !.kid = ""],
                   [BaseHeader EXCEPT !.kid = "k2"],
                   [BaseHeader EXCEPT !.kid = "k9"],
                   [BaseHeader EXCEPT !.alg = "HS256"],
                   [BaseHeader EXCEPT !.alg = "none"],
                   [BaseHeader EXCEPT !.alg = Absent]}}
    \cup {[t EXCEPT !.sig = s] :
            s \in {[BaseSig EXCEPT !.intact = FALSE],
                   [BaseSig EXCEPT !.key = "pub_attacker"],
                   [alg |-> "HS256", key |-> "pub_k1", intact |-> TRUE],
                   [alg |-> "none", key |-> NoKey, intact |-> TRUE]}}
    \cup {[t EXCEPT !.claims = c] : c \in ClaimVariants(t.claims)}

\* every token that differs from the well-formed access token in at most two
\* places
Tokens == {BaseToken} \cup Variants(BaseToken)
            \cup UNION {Variants(t) : t \in Variants(BaseToken)}

ScopeSets == {{}, {"openid"}, {"openid", "profile"}}

(* ------------------- utils/validation.py ------------------------------ *)

RECURSIVE SumSizes(_)
SumSizes(shape) ==
    IF shape = <<>> THEN 0 ELSE Head(shape).size + SumSizes(Tail(shape))

\* len(token): the segments and the dots between them
TokenLen(shape) == SumSizes(shape) + (IF Len(shape) = 0 THEN 0 ELSE Len(shape) - 1)

\* ^[A-Za-z0-9_-]+$ : only characters of the alphabet, and at least one
MatchesBase64Url(seg) == seg.alphabet /\ seg.size >= 1

validate_jwt_token_format(token) ==
    /\ Len(token.shape) = 3
    /\ \A i \in 1..Len(token.shape) : MatchesBase64Url(token.shape[i])
    /\ ~(TokenLen(token.shape) > MaxTokenLen)

(* ------------------------- the JWT library ---------------------------- *)

LibOk == [ok |-> TRUE, type |-> "", text |-> ""]
LibErr(type, text) == [ok |-> FALSE, type |-> type, text |-> text]

\* Algorithm.verify: the "none" algorithm verifies nothing; any other one
\* verifies a signature made with it, for this key, over this content
VerifySignature(alg, key, sig) ==
    /\ alg # "none"
    /\ sig.intact
    /\ sig.alg = alg
    /\ sig.key = key

\* a faulty variant: the algorithm read from the token
AlgorithmsFromHeader(token) == {token.header.alg}
\* cognito.py:123 : the algorithms argument of the verifying jwt.decode
DecodeAlgorithms(token) == {"RS256"}

\* jws signature check: the header's alg must be one of the allowed ones
JwsVerify(token, key, algorithms) ==
    IF token.header.alg = Absent \/ token.header.alg \notin algorithms
    THEN LibErr("InvalidAlgorithmError", "The specified alg value is not allowed")
    ELSE IF ~VerifySignature(token.header.alg, key, token.sig)
    THEN LibErr("InvalidSignatureError", "Signature verification failed")
    ELSE LibOk

AudFalsy(aud) == (~aud.isList /\ aud.vals = {""}) \/ (aud.isList /\ aud.vals = {})

\* the registered-claim checks, in the library's order: iat, nbf, exp, iss, aud
ValidateClaims(c, issuer, audience, verify_aud, now) ==
    IF "iat" \in c.present /\ c.iat > now
    THEN LibErr("ImmatureSignatureError", "The token is not yet valid (iat)")
    ELSE IF "nbf" \in c.present /\ c.nbf > now
    THEN LibErr("ImmatureSignatureError", "The token is not yet valid (nbf)")
    ELSE IF "exp" \in c.present /\ c.exp <= now
    THEN LibErr("ExpiredSignatureError", "Signature has expired")
    ELSE IF "iss" \notin c.present
    THEN LibErr("MissingRequiredClaimError", "Token is missing the iss claim")
    ELSE IF c.iss # issuer
    THEN LibErr("InvalidIssuerError", "Invalid issuer")
    ELSE IF ~verify_aud
    THEN LibOk
    ELSE IF "aud" \notin c.present \/ AudFalsy(c.aud)
    THEN LibErr("MissingRequiredClaimError", "Token is missing the aud claim")
    ELSE IF audience \notin c.aud.vals
    THEN LibErr("InvalidAudienceError", "Audience doesn't match")
    ELSE LibOk

\* jwt.decode(token, options={"verify_signature": False}): parses, checks nothing
DecodeUnverified(token) ==
    IF ~token.claims.json
    THEN LibErr("DecodeError", "Invalid payload string")
    ELSE LibOk

\* a decode that skips the signature
JwtDecodeNoSignature(token, key, algorithms, issuer, audience, verify_aud, now) ==
    IF ~token.claims.json THEN LibErr("DecodeError", "Invalid payload string")
    ELSE ValidateClaims(token.claims, issuer, audience, verify_aud, now)
\* jwt.decode(token, key, algorithms, issuer, audience, options): signature
\* first, then the payload, then the claims
JwtDecode(token, key, algorithms, issuer, audience, verify_aud, now) ==
    IF ~JwsVerify(token, key, algorithms).ok THEN JwsVerify(token, key, algorithms)
    ELSE IF ~token.claims.json THEN LibErr("DecodeError", "Invalid payload string")
    ELSE ValidateClaims(token.claims, issuer, audience, verify_aud, now)

\* jwt.get_unverified_header
GetUnverifiedHeader(token) ==
    IF ~token.header.json
    THEN LibErr("DecodeError", "Invalid header string")
    ELSE LibOk

(* --------------------- cognito.py: the gates -------------------------- *)

\* cognito.py:66, the condition under which the URL is refused
JwksUrlRefused(jwks_url) ==
    \/ ~StartsWith(jwks_url, <<"https://", "cognito-idp.">>)
    \/ ~Contains(jwks_url, ".amazonaws.com")

\* cognito.py:97-101 : the first key of the set with the token's key id
RECURSIVE FindKey(_, _)
FindKey(keys, kid) ==
    IF keys = <<>> THEN [found |-> FALSE, jwk |-> [kid |-> "", kty |-> "", key |-> NoKey]]
    ELSE IF Head(keys).kid = kid THEN [found |-> TRUE, jwk |-> Head(keys)]
    ELSE FindKey(Tail(keys), kid)

\* the key looked up in the key set of an earlier call, not in the one
\* this call fetched
ResolveKeyFromCache(token, keys) ==
    IF ~GetUnverifiedHeader(token).ok THEN NoKey
    ELSE IF token.header.kid = Absent \/ token.header.kid = "" THEN NoKey
    ELSE IF ~FindKey(CognitoJwks, token.header.kid).found THEN NoKey
    ELSE IF FindKey(CognitoJwks, token.header.kid).jwk.kty # "RSA" THEN NoKey
    ELSE FindKey(CognitoJwks, token.header.kid).jwk.key

\* cognito.py:87-109 : the key the token's header selects, or NoKey
ResolveKey(token, keys) ==
    IF ~GetUnverifiedHeader(token).ok THEN NoKey
    ELSE IF token.header.kid = Absent \/ token.header.kid = "" THEN NoKey
    ELSE IF ~FindKey(keys, token.header.kid).found THEN NoKey
    ELSE IF FindKey(keys, token.header.kid).jwk.kty # "RSA" THEN NoKey
    ELSE FindKey(keys, token.header.kid).jwk.key

\* cognito.py:117
HasAudience(token) == "aud" \in token.claims.present

\* faulty variants of the two decodes: the signature not verified, the
\* audience always demanded, the audience never checked
DecodeUnsigned(token, key, cfg, now) ==
    IF ~DecodeUnverified(token).ok THEN DecodeUnverified(token)
    ELSE JwtDecodeNoSignature(token, key, DecodeAlgorithms(token), IssuerOf(cfg),
                   IF HasAudience(token) THEN cfg.client_id ELSE Absent,
                   HasAudience(token), now)
DecodeAlwaysAudience(token, key, cfg, now) ==
    IF ~DecodeUnverified(token).ok THEN DecodeUnverified(token)
    ELSE JwtDecode(token, key, DecodeAlgorithms(token), IssuerOf(cfg),
                   cfg.client_id, TRUE, now)
DecodeNoAudience(token, key, cfg, now) ==
    IF ~DecodeUnverified(token).ok THEN DecodeUnverified(token)
    ELSE JwtDecode(token, key, DecodeAlgorithms(token), IssuerOf(cfg),
                   Absent, FALSE, now)
\* cognito.py:116-133 : both decodes
DecodeAndValidate(token, key, cfg, now) ==
    IF ~DecodeUnverified(token).ok THEN DecodeUnverified(token)
    ELSE JwtDecode(token, key, DecodeAlgorithms(token), IssuerOf(cfg),
                   IF HasAudience(token) THEN cfg.client_id ELSE Absent,
                   HasAudience(token), now)

\* "scope".split(): the words of the space-delimited claim
Split(scope) == {scope[i] : i \in 1..Len(scope)}

\* two faulty variants of the policy checks: the age check left out, and the
\* scope check applied to every token use
PolicyWithoutAge(c, required_scopes, current_time) ==
    IF ~("token_use" \in c.present /\ c.token_use \in {"id", "access"})
    THEN "InvalidTokenUse"
    ELSE IF required_scopes # {} /\ c.token_use = "access"
            /\ required_scopes \ Split(IF "scope" \in c.present THEN c.scope ELSE <<>>) # {}
    THEN "InsufficientScope"
    ELSE IF ~("sub" \in c.present /\ c.sub # "")
    THEN "MissingSubject"
    ELSE ""
PolicyScopeAnyUse(c, required_scopes, current_time) ==
    IF ~("token_use" \in c.present /\ c.token_use \in {"id", "access"})
    THEN "InvalidTokenUse"
    ELSE IF required_scopes # {}
            /\ required_scopes \ Split(IF "scope" \in c.present THEN c.scope ELSE <<>>) # {}
    THEN "InsufficientScope"
    ELSE IF ~("sub" \in c.present /\ c.sub # "")
    THEN "MissingSubject"
    ELSE IF current_time - (IF "iat" \in c.present THEN c.iat ELSE 0) > MaxAge
    THEN "TokenTooOld"
    ELSE ""
\* cognito.py:144-169 : the first policy check that fails, or "" when none does
PolicyFailure(c, required_scopes, current_time) ==
    IF ~("token_use" \in c.present /\ c.token_use \in {"id", "access"})
    THEN "InvalidTokenUse"
    ELSE IF required_scopes # {} /\ c.token_use = "access"
            /\ required_scopes \ Split(IF "scope" \in c.present THEN c.scope ELSE <<>>) # {}
    THEN "InsufficientScope"
    ELSE IF ~("sub" \in c.present /\ c.sub # "")
    THEN "MissingSubject"
    ELSE IF current_time - (IF "iat" \in c.present THEN c.iat ELSE 0) > MaxAge
    THEN "TokenTooOld"
    ELSE ""

(* ------------------- the outcome of a verification -------------------- *)

NoResult == [state |-> "none", kind |-> "", reason |-> "", excType |-> "", excMsg |-> <<>>]
Returned == [state |-> "ok", kind |-> "", reason |-> "", excType |-> "", excMsg |-> <<>>]
Raised(kind, reason, excType, excMsg) ==
    [state |-> "raised", kind |-> kind, reason |-> reason, excType |-> excType,
     excMsg |-> excMsg]

\* faulty variants: expired wrapped like the rest; nothing wrapped
RaiseDecodeWrapAll(lib) ==
    Raised("SignatureOrClaimInvalid", lib.type, "InvalidTokenError",
           <<"Token validation failed: ", lib.text>>)
RaiseDecodeUnwrapped(lib) ==
    Raised(IF lib.type = "ExpiredSignatureError" THEN "Expired"
           ELSE "SignatureOrClaimInvalid", lib.type, lib.type, <<lib.text>>)
\* cognito.py:135-140 : expired is re-raised as it is, anything else is wrapped
RaiseDecode(lib) ==
    IF lib.type = "ExpiredSignatureError"
    THEN Raised("Expired", lib.type, "ExpiredSignatureError", <<lib.text>>)
    ELSE Raised("SignatureOrClaimInvalid", lib.type, "InvalidTokenError",
                <<"Token validation failed: ", lib.text>>)

(* ------------------------ utils/errors.py ----------------------------- *)

\* errors.py:50-68 : error_mapping.get(type(exception), default)
get_safe_error_message(excType) ==
    CASE excType = "ExpiredSignatureError" -> [error |-> <<"Token has expired">>, status_code |-> 401]
      [] excType = "InvalidTokenError"     -> [error |-> <<"Invalid authentication token">>, status_code |-> 401]
      [] excType = "DecodeError"           -> [error |-> <<"Invalid authentication token">>, status_code |-> 401]
      [] excType = "ValueError"            -> [error |-> <<"Invalid request data">>, status_code |-> 400]
      [] excType = "KeyError"              -> [error |-> <<"Missing required data">>, status_code |-> 400]
      [] excType = "TypeError"             -> [error |-> <<"Invalid data type">>, status_code |-> 400]
      [] OTHER -> [error |-> <<"An error occurred processing your request">>, status_code |-> 500]

\* what get_current_user ends in: nothing yet, the user it returns, or the
\* HTTPException it raises
NoResponse == [outcome |-> "none", status_code |-> 0, detail |-> <<>>,
               www_authenticate |-> <<>>, user |-> ""]
UserReturned(claims) == [outcome |-> "user", status_code |-> 0, detail |-> <<>>,
                         www_authenticate |-> <<>>, user |-> claims.sub]

\* errors.py:76-95 : an HTTPException without headers
create_http_exception(excType) ==
    [outcome |-> "http_exception",
     status_code |-> get_safe_error_message(excType).status_code,
     detail |-> get_safe_error_message(excType).error, www_authenticate |-> <<>>,
     user |-> ""]

(* ---------------------- the HTTP side of a request -------------------- *)

\* request.base_url: scheme, host and the root path, which ends with "/"
BaseUrl == <<"http://", "localhost:8000", "/">>

\* the route the protected-resource metadata document is served at (oauth.py:197)
ResourceMetadataPath == <<"/", ".well-known/oauth-protected-resource">>

\* the Authorization header of a request (call.auth keeps its scheme and
\* whether it has credentials; the credentials themselves are call.token)
NoAuthHeader == [scheme |-> Absent, hasCredentials |-> FALSE, token |-> BaseToken]
AuthHeader(scheme, token) == [scheme |-> scheme, hasCredentials |-> TRUE, token |-> token]
AuthHeaders ==
    {NoAuthHeader,
     AuthHeader("Basic", BaseToken),
     AuthHeader("bearer", BaseToken),
     [scheme |-> "Bearer", hasCredentials |-> FALSE, token |-> BaseToken]}
    \cup {AuthHeader("Bearer", t) : t \in Tokens}

\* HTTPBearer(auto_error=False): the credentials, or none when the header is
\* missing, has no credentials, or its scheme is not bearer in any letter case
security(auth) ==
    auth.scheme # Absent /\ auth.hasCredentials /\ auth.scheme \in {"Bearer", "bearer"}

\* cognito.py:203-210
MissingCredentialsResponse ==
    [outcome |-> "http_exception", status_code |-> 401,
     detail |-> <<"Authorization header required">>,
     www_authenticate |->
        <<"Bearer resource_metadata=\"">> \o BaseUrl \o ResourceMetadataPath \o <<"\"">>,
     user |-> ""]

(* ------------------------------ network ------------------------------- *)

IdentityProviderHost(url) ==
    StartsWith(url, <<"https://", "cognito-idp.", Env.COGNITO_REGION, ".amazonaws.com", "/">>)

\* what a GET of the URL can end in
FetchOutcomes(url) ==
    IF IdentityProviderHost(url)
    THEN {[status |-> "ok", keys |-> CognitoJwks],
          [status |-> "ok", keys |-> RotatedJwks],
          [status |-> "timeout", keys |-> <<>>],
          [status |-> "http_status", keys |-> <<>>],
          [status |-> "error", keys |-> <<>>]}
    ELSE {[status |-> "ok", keys |-> AttackerJwks],
          [status |-> "timeout", keys |-> <<>>]}

(* ====================== the protocol dispatcher ======================= *)

(* ---------------------------- JSON values ----------------------------- *)

\* a JSON value of a request body: its type, its text, and its number (the
\* length of a text, the value of a number, 1/0 of a boolean, the size of
\* an array)
JAbsent == [t |-> "absent", s |-> "", n |-> 0]
JNull == [t |-> "null", s |-> "", n |-> 0]
JText(s, len) == [t |-> "str", s |-> s, n |-> len]
JInt(k) == [t |-> "int", s |-> "", n |-> k]
JBool(b) == [t |-> "bool", s |-> "", n |-> IF b THEN 1 ELSE 0]
JList(size) == [t |-> "list", s |-> "", n |-> size]
\* a number whose absolute value is above 1e10 (add.py:81)
JHuge == [t |-> "huge", s |-> "", n |-> 1]

\* Python's truth value of a JSON value
Truthy(v) ==
    CASE v.t \in {"absent", "null"} -> FALSE
      [] v.t = "huge" -> TRUE
      [] OTHER -> v.n # 0

\* whether the value can be a dict key (a list cannot)
Hashable(v) == v.t # "list"

\* a JSON object as the set of its <<key, value>> members
Keys(d) == {m[1] : m \in d}
Member(d, key) == (CHOOSE m \in d : m[1] = key)[2]
\* dict.get(key, default)
DictGet(d, key, default) == IF key \in Keys(d) THEN Member(d, key) ELSE default

(* ----------------------- main.py: the envelopes ----------------------- *)

\* the "arguments" member of params: absent, null, or an object
NoArguments == [t |-> "absent", d |-> {}]
NullArguments == [t |-> "null", d |-> {}]
Arguments(d) == [t |-> "dict", d |-> d]

\* the "params" member of a request: absent, null, or an object with its
\* "name" and "arguments" members (each may be absent)
NoParams == [t |-> "absent", name |-> JAbsent, arguments |-> NoArguments]
NullParams == [t |-> "null", name |-> JAbsent, arguments |-> NoArguments]
Params(name, arguments) == [t |-> "dict", name |-> name, arguments |-> arguments]

\* main.py:101-105 : params defaults to {} and id to None
MCPRequest(method, params, id) ==
    [method |-> method,
     params |-> IF params.t = "absent" THEN Params(JAbsent, NoArguments) ELSE params,
     id |-> IF id.t = "absent" THEN JNull ELSE id]

NoRequest == MCPRequest("", NoParams, JAbsent)

\* the text of tool content: its pieces, and the number it reports
Content(text, value) == [text |-> text, value |-> value]
NoContent == Content(<<>>, 0)

\* a JSON-RPC result object: null, or the keys it has and their values
NullResult == [null |-> TRUE, keys |-> {}, protocolVersion |-> "", list |-> <<>>,
               content |-> NoContent, isError |-> FALSE]
ResultObject(keys) == [NullResult EXCEPT !.null = FALSE, !.keys = keys]

\* a JSON-RPC error object: null, or code, message and data.error_id
NullError == [null |-> TRUE, code |-> 0, message |-> <<>>, keys |-> {}, error_id |-> ""]
ErrorObject(code, message) ==
    [null |-> FALSE, code |-> code, message |-> message, keys |-> {"code", "message"},
     error_id |-> ""]

\* main.py:108-112
MCPResponse(result, error, id) == [result |-> result, error |-> error, id |-> id]

\* an HTTP response: status, the MCP-Protocol-Version header, and the body
\* (a JSON-RPC envelope, the metadata document, an error detail, or nothing)
NoBody == [kind |-> "empty", rpc |-> MCPResponse(NullResult, NullError, JNull),
           mcpVersion |-> "", authentication |-> FALSE, detail |-> <<>>]
HttpResponse(status_code, version_header, body) ==
    [status_code |-> status_code, mcp_protocol_version |-> version_header, body |-> body]
NoHttpResponse == HttpResponse(0, Absent, NoBody)

\* Response(content=response.model_dump_json(), status_code=...,
\*          headers={"MCP-Protocol-Version": "2025-06-18"})
RpcResponse(status_code, rpc) ==
    HttpResponse(status_code, "2025-06-18", [NoBody EXCEPT !.kind = "jsonrpc", !.rpc = rpc])

(* ------------------------------ tools --------------------------------- *)

\* echo.py:26-49
EchoTool ==
    [name |-> "echo",
     properties |-> {<<"message", "string">>},
     required |-> {"message"}]

\* add.py:24-54
AddTool ==
    [name |-> "add",
     properties |-> {<<"a", "number">>, <<"b", "number">>},
     required |-> {"a", "b"}]

\* registry.py:37-45 : the registry after construction
default_tools == {EchoTool, AddTool}

\* base.py:37-41
ToolResult(content, isError) == [content |-> content, isError |-> isError]

\* base.py:130-137 : isinstance of the value against the schema's type (a
\* Python bool is an int)
TypeMatches(expected_type, v) ==
    CASE expected_type = "string" -> v.t = "str"
      [] expected_type = "number" -> v.t \in {"int", "huge", "bool"}
      [] expected_type = "integer" -> v.t \in {"int", "huge", "bool"}
      [] expected_type = "boolean" -> v.t = "bool"
      [] OTHER -> TRUE

\* what a call ends in: the type of the exception it raises ("" when it
\* returns) and the exception's text
Raises(excType, text) == [raised |-> excType, text |-> text]

\* base.py:100-145
validate_arguments(tool, arguments) ==
    IF arguments.t # "dict"
    THEN Raises("TypeError", <<"argument of type 'NoneType' is not iterable">>)
    ELSE IF tool.required \ Keys(arguments.d) # {}
    THEN Raises("ValueError", <<"Missing required fields">>)
    ELSE IF \E p \in tool.properties :
               p[1] \in Keys(arguments.d) /\ ~TypeMatches(p[2], Member(arguments.d, p[1]))
    THEN Raises("ValueError", <<"Field must be a ">>)
    ELSE Raises("", <<>>)

\* echo.py:51-86
EchoExecute(arguments) ==
    IF DictGet(arguments.d, "message", JText("", 0)).n > 1000
    THEN ToolResult(Content(<<"Error: Message too long (maximum 1000 characters)">>, 0), TRUE)
    ELSE ToolResult(Content(<<"Echo: ", DictGet(arguments.d, "message", JText("", 0)).s>>, 0),
                    FALSE)

\* how a number reads inside an f-string (a bool is an int that reads as
\* True or False)
Show(v) ==
    IF v.t = "bool" THEN (IF v.n = 1 THEN "True" ELSE "False") ELSE ToString(v.n)

\* add.py:56-115
AddExecute(arguments) ==
    LET a == DictGet(arguments.d, "a", JInt(0))
        b == DictGet(arguments.d, "b", JInt(0))
    IN  IF a.t \notin {"int", "huge", "bool"} \/ b.t \notin {"int", "huge", "bool"}
        THEN ToolResult(Content(<<"Error: Both 'a' and 'b' must be numbers">>, 0), TRUE)
        ELSE IF a.t = "huge" \/ b.t = "huge"
        THEN ToolResult(Content(<<"Error: Numbers too large (maximum absolute value: 10,000,000,000)">>, 0),
                        TRUE)
        ELSE ToolResult(Content(<<Show(a), " + ", Show(b), " = ", ToString(a.n + b.n)>>,
                                a.n + b.n),
                        FALSE)

execute(tool, arguments) ==
    IF tool.name = "echo" THEN EchoExecute(arguments) ELSE AddExecute(arguments)

\* safe_execute without the validation step
ExecuteUnvalidated(tool, arguments) ==
    [result |-> execute(tool, arguments), executed |-> TRUE]

\* base.py:147-191 : the result, and whether the tool's execute ran
safe_execute(tool, arguments) ==
    LET v == validate_arguments(tool, arguments)
    IN  CASE v.raised = "ValueError" ->
                [result |-> ToolResult(Content(<<"Validation error: ">> \o v.text, 0), TRUE),
                 executed |-> FALSE]
          [] v.raised \notin {"", "ValueError"} ->
                [result |-> ToolResult(Content(<<"Tool execution failed: ">> \o v.text, 0), TRUE),
                 executed |-> FALSE]
          [] OTHER ->
                [result |-> execute(tool, arguments), executed |-> TRUE]

\* registry.py:33 : self._tools, the registered tools (one of a name)
VARIABLE tools

\* main.py:170, 267 : client_type, what detect_client_securely made of the
\* request ("" while no handler has called it)
VARIABLE client_type

\* registry.py:88-98 : self._tools.get(tool_name)
get_tool(tool_name) ==
    {tl \in tools : tool_name.t = "str" /\ tl.name = tool_name.s}

\* registry.py:130-149 : what execute_tool raises, the tool whose
\* safe_execute it awaited, and the result
execute_tool(tool_name, arguments) ==
    IF ~Hashable(tool_name)
    THEN [raised |-> "TypeError", entered |-> {}, executed |-> FALSE, result |-> ToolResult(NoContent, FALSE)]
    ELSE IF get_tool(tool_name) = {}
    THEN [raised |-> "ValueError", entered |-> {}, executed |-> FALSE, result |-> ToolResult(NoContent, FALSE)]
    ELSE LET tool == CHOOSE tl \in get_tool(tool_name) : TRUE
         IN  [raised |-> "", entered |-> {tool.name},
              executed |-> safe_execute(tool, arguments).executed,
              result |-> safe_execute(tool, arguments).result]

(* --------------------- main.py: mcp_handler branches ------------------ *)

\* how a value reads inside an f-string
Text(v) == IF v.t \in {"absent", "null"} THEN "None" ELSE v.s

\* main.py:273-298
InitializeResponse(mcp_request) ==
    RpcResponse(200,
        MCPResponse([ResultObject({"protocolVersion", "capabilities", "serverInfo"})
                        EXCEPT !.protocolVersion = "2025-06-18"],
                    NullError, mcp_request.id))

\* an acknowledgement that carries neither result nor error
InitializedNoContent(mcp_request) ==
    RpcResponse(202,
        MCPResponse(NullResult, NullError,
                    IF Truthy(mcp_request.id) THEN mcp_request.id ELSE JNull))

\* an acknowledgement with the status of a normal result
InitializedAsSuccess(mcp_request) ==
    RpcResponse(200,
        MCPResponse(ResultObject({}), NullError,
                    IF Truthy(mcp_request.id) THEN mcp_request.id ELSE JNull))

\* main.py:300-312
InitializedResponse(mcp_request) ==
    RpcResponse(202,
        MCPResponse(ResultObject({}), NullError,
                    IF Truthy(mcp_request.id) THEN mcp_request.id ELSE JNull))

\* main.py:314-331 : the definitions of the registered tools, in dict order
ToolsListResponse(mcp_request) ==
    RpcResponse(200,
        MCPResponse([ResultObject({"tools"}) EXCEPT !.list = <<EchoTool.name, AddTool.name>>],
                    NullError, mcp_request.id))

\* main.py:333-345
PromptsListResponse(mcp_request) ==
    RpcResponse(200, MCPResponse(ResultObject({"prompts"}), NullError, mcp_request.id))

\* main.py:347-359
ResourcesListResponse(mcp_request) ==
    RpcResponse(200, MCPResponse(ResultObject({"resources"}), NullError, mcp_request.id))

\* main.py:371-375 : the result of a tool that returned
ToolResultObject(result) == [ResultObject({"content"}) EXCEPT !.content = result.content]

\* main.py:368-393 : after execute_tool returned, or raised ValueError
ToolsCallResponse(mcp_request, tool_name, outcome) ==
    IF outcome.raised = "ValueError"
    THEN RpcResponse(200,
            MCPResponse(NullResult,
                        ErrorObject(-32602, <<"Unknown tool: ", Text(tool_name)>>),
                        mcp_request.id))
    ELSE RpcResponse(200,
            MCPResponse(ToolResultObject(outcome.result), NullError, mcp_request.id))

\* main.py:395-407
MethodNotFoundResponse(mcp_request) ==
    RpcResponse(200,
        MCPResponse(NullResult,
                    ErrorObject(-32601, <<"Method not found: ", mcp_request.method>>),
                    mcp_request.id))

\* errors.py:44-47 : the line get_safe_error_message logs
ErrorLine(excType, request_id) == [error_id |-> request_id, excType |-> excType]

\* main.py:409-427
InternalErrorResponse(mcp_request, excType, request_id) ==
    RpcResponse(500,
        MCPResponse(NullResult,
                    [ErrorObject(-32603, get_safe_error_message(excType).error)
                        EXCEPT !.keys = {"code", "message", "data"},
                               !.error_id = request_id],
                    mcp_request.id))

\* a dispatcher that compares method names without regard to letter case
BranchAnyCase(method) ==
    CASE method \in {"initialize", "Initialize"} -> "initialize"
      [] method = "notifications/initialized" -> "notifications/initialized"
      [] method = "tools/list" -> "tools/list"
      [] method = "prompts/list" -> "prompts/list"
      [] method = "resources/list" -> "resources/list"
      [] method = "tools/call" -> "tools/call"
      [] OTHER -> "else"

\* main.py:273-407 : the branch a method takes
Branch(method) ==
    CASE method = "initialize" -> "initialize"
      [] method = "notifications/initialized" -> "notifications/initialized"
      [] method = "tools/list" -> "tools/list"
      [] method = "prompts/list" -> "prompts/list"
      [] method = "resources/list" -> "resources/list"
      [] method = "tools/call" -> "tools/call"
      [] OTHER -> "else"

\* the response of a branch that calls no tool
PlainResponse(mcp_request) ==
    CASE Branch(mcp_request.method) = "initialize" -> InitializeResponse(mcp_request)
      [] Branch(mcp_request.method) = "notifications/initialized" -> InitializedResponse(mcp_request)
      [] Branch(mcp_request.method) = "tools/list" -> ToolsListResponse(mcp_request)
      [] Branch(mcp_request.method) = "prompts/list" -> PromptsListResponse(mcp_request)
      [] Branch(mcp_request.method) = "resources/list" -> ResourcesListResponse(mcp_request)
      [] OTHER -> MethodNotFoundResponse(mcp_request)

(* ----------------------- GET and HEAD of /mcp ------------------------- *)

\* a returned dict becomes a JSON response with status 200 and no header of
\* the handler's own
MetadataResponse(authenticated) ==
    HttpResponse(200, Absent,
        [NoBody EXCEPT !.kind = "metadata", !.mcpVersion = "2025-06-18",
                       !.authentication = ~authenticated])

\* main.py:215 : Response()
EmptyResponse == HttpResponse(200, Absent, NoBody)

(* -------------------- utils/client_detection.py ----------------------- *)

\* a header value is a sequence of pieces of text; Nul is a control
\* character, Filler is 495 characters of padding, and a piece that the
\* length limit cuts into leaves Cut, a proper prefix of it
Nul == "<NUL>"
Filler == "<x * 495>"
Cut == "<cut>"

PieceLen(piece) ==
    CASE piece = Filler -> 495
      [] piece = Nul -> 1
      [] piece \in {"claude.ai", "Claude.AI", "julius.ai", "anthropic"} -> 9
      [] piece = "https://" -> 8
      [] piece = "mozilla/5.0" -> 11
      [] piece = "de.ai" -> 5
      [] OTHER -> 4

\* client_detection.py:24-26 : s[:limit]
RECURSIVE Truncate(_, _)
Truncate(s, limit) ==
    IF s = <<>> \/ limit = 0 THEN <<>>
    ELSE IF PieceLen(Head(s)) <= limit
    THEN <<Head(s)>> \o Truncate(Tail(s), limit - PieceLen(Head(s)))
    ELSE <<Cut>>

\* client_detection.py:24-26 : s.lower()
LowerPiece(piece) == IF piece = "Claude.AI" THEN "claude.ai" ELSE piece
Lower(s) == [i \in 1..Len(s) |-> LowerPiece(s[i])]

\* client_detection.py:29 : the control characters are taken out, and the
\* text on both sides of one closes up
RECURSIVE Sanitize(_)
Sanitize(s) ==
    IF s = <<>> THEN <<>>
    ELSE IF Head(s) = Nul THEN Sanitize(Tail(s))
    ELSE IF Len(s) >= 3 /\ s[1] = "clau" /\ s[2] = Nul /\ s[3] = "de.ai"
    THEN <<"claude.ai">> \o Sanitize(SubSeq(s, 4, Len(s)))
    ELSE <<Head(s)>> \o Sanitize(Tail(s))

\* client_detection.py:24-32
Clean(s) == Sanitize(Lower(Truncate(s, 500)))

\* pattern in src
PatternIn(pattern, src) ==
    \E i \in 1..Len(src) :
        i + Len(pattern) - 1 <= Len(src) /\ SubSeq(src, i, i + Len(pattern) - 1) = pattern

\* client_detection.py:35-38
client_patterns ==
    <<[client |-> "julius",
       patterns |-> << <<"julius.ai">>, <<"api.", "julius.ai">>, <<"app.", "julius.ai">> >>],
      [client |-> "claude", patterns |-> << <<"claude.ai">>, <<"anthropic">> >>]>>

\* the clients of which a pattern is in one of the cleaned headers, by
\* their place in client_patterns
Matching(headers) ==
    {c \in 1..Len(client_patterns) :
        \E k \in 1..Len(client_patterns[c].patterns) :
            \E src \in {Clean(headers.user_agent), Clean(headers.referer),
                         Clean(headers.origin)} :
                PatternIn(client_patterns[c].patterns[k], src)}

\* detect_client_securely returning the last matching client of the list
DetectLastMatch(headers) ==
    IF Matching(headers) = {} THEN "unknown"
    ELSE client_patterns[CHOOSE c \in Matching(headers) :
                            \A o \in Matching(headers) : o <= c].client

\* client_detection.py:13-46
detect_client_securely(headers) ==
    IF Matching(headers) = {} THEN "unknown"
    ELSE client_patterns[CHOOSE c \in Matching(headers) :
                            \A o \in Matching(headers) : c <= o].client

\* /mcp: the HTTP method and path of the request, and its User-Agent,
\* Referer and Origin headers
VARIABLE http_request

\* get_current_user's exception not raised for a request whose headers
\* tag it as claude
ExceptionUnlessKnownClient(exc) ==
    IF detect_client_securely(http_request'.headers) = "claude"
    THEN HttpResponse(200, Absent, NoBody)
    ELSE HttpResponse(exc.status_code, Absent,
                      [NoBody EXCEPT !.kind = "detail", !.detail = exc.detail])

\* the HTTPException of get_current_user as the response of the route
ExceptionResponse(exc) ==
    HttpResponse(exc.status_code, Absent, [NoBody EXCEPT !.kind = "detail", !.detail = exc.detail])

(* ------------------------- dispatcher inputs -------------------------- *)

\* the values of User-Agent, Referer and Origin (<<>>: the request has no
\* such header)
HeaderValues ==
    {<<>>,
     <<"mozilla/5.0">>,
     <<"https://", "Claude.AI">>,
     <<"https://", "app.", "julius.ai">>,
     <<"clau", Nul, "de.ai">>,
     <<Filler, "julius.ai">>}

ClientHeaders(user_agent, referer, origin) ==
    [user_agent |-> user_agent, referer |-> referer, origin |-> origin]
NoClientHeaders == ClientHeaders(<<>>, <<>>, <<>>)

\* the headers of the requests of GET /mcp, and those of the other requests
AllClientHeaders ==
    {ClientHeaders(u, r, o) : u \in HeaderValues, r \in HeaderValues, o \in HeaderValues}
SomeClientHeaders ==
    {NoClientHeaders,
     ClientHeaders(<<"mozilla/5.0">>, <<>>, <<"https://", "Claude.AI">>),
     ClientHeaders(<<"https://", "app.", "julius.ai">>, <<>>, <<>>)}

Methods ==
    {"initialize", "notifications/initialized", "tools/list", "tools/call",
     "prompts/list", "resources/list", "ping", "", "Initialize", "tools/call/"}

Ids == {JAbsent, JNull, JText("", 0), JText("req-1", 5), JInt(0), JInt(7), JBool(FALSE)}

ToolNames ==
    {JAbsent, JNull, JText("echo", 4), JText("add", 3), JText("nope", 4), JText("", 0),
     JText("Echo", 4), JInt(5), JList(1)}

ArgumentValues ==
    {NoArguments, NullArguments, Arguments({}),
     Arguments({<<"message", JText("hi", 2)>>}),
     Arguments({<<"message", JText("long", 1001)>>}),
     Arguments({<<"message", JInt(5)>>}),
     Arguments({<<"message", JText("hi", 2)>>, <<"extra", JBool(TRUE)>>}),
     Arguments({<<"a", JInt(2)>>, <<"b", JInt(3)>>}),
     Arguments({<<"a", JInt(2)>>}),
     Arguments({<<"a", JHuge>>, <<"b", JInt(3)>>}),
     Arguments({<<"a", JText("2", 1)>>, <<"b", JInt(3)>>}),
     Arguments({<<"a", JBool(TRUE)>>, <<"b", JInt(3)>>}),
     Arguments({<<"a", JInt(2)>>, <<"b", JNull>>})}

ParamValues ==
    {NoParams, NullParams} \cup {Params(n, a) : n \in ToolNames, a \in ArgumentValues}

Bodies == {<<m, p, i>> : m \in Methods, p \in ParamValues, i \in Ids}

\* secrets.token_hex(8)
RequestIds == {"3f9a1c0e5b7d2a46", "c41d88e2a07b95f3"}

\* what Depends(get_current_user) hands the route: a user, or its exception
Dependencies ==
    {UserReturned(BaseClaims), MissingCredentialsResponse,
     create_http_exception("InvalidTokenError"),
     create_http_exception("ExpiredSignatureError")}

(* ---------------------- main.py: /v1/contexts ------------------------- *)

\* uuid.uuid4() : an id no earlier context has
uuid4(n) == ToString(n)

UserId(sub) == JText(sub, 2)

\* main.py:238-243 : the dict literal; the members of context_data come
\* last and replace the members of the same key before them
new_context(context_id, user_id, context_data) ==
    {m \in {<<"id", JText(context_id, 36)>>, <<"user_id", UserId(user_id)>>,
            <<"created_at", JText("2025-01-15T00:00:00Z", 20)>>} :
        m[1] \notin Keys(context_data)} \cup context_data

\* main.py:235-245 : contexts_db after create_context (created_by is kept
\* for the properties: the sub of the user the dependency returned)
create_context(db, sub, context_data) ==
    Append(db, [key |-> uuid4(Len(db) + 1),
                value |-> new_context(uuid4(Len(db) + 1), sub, context_data),
                created_by |-> sub])

\* get_contexts matching on the creator's sub kept beside the context
ContextsCreatedBy(db, sub) ==
    LET mine == SelectSeq(db, LAMBDA e : e.created_by = sub)
    IN  [i \in 1..Len(mine) |-> mine[i].value]

\* main.py:222-227
get_contexts(db, sub) ==
    LET mine == SelectSeq(db, LAMBDA e : DictGet(e.value, "user_id", JNull) = UserId(sub))
    IN  [i \in 1..Len(mine) |-> mine[i].value]

\* the bodies of POST /v1/contexts
ContextBodies ==
    {{},
     {<<"name", JText("notes", 5)>>},
     {<<"name", JText("notes", 5)>>, <<"user_id", UserId("u2")>>},
     {<<"id", JText("my-id", 5)>>}}

\* the token the identity provider issues a subject
TokenOf(sub) == [BaseToken EXCEPT !.claims = With(BaseClaims, "sub", sub)]

\* the objects handed to register_tool: the default tools again, another
\* tool of the name echo, two tools of a new name, and an object that is not
\* a BaseTool
NotATool == [name |-> Absent, properties |-> {}, required |-> {}]
Registrable ==
    {EchoTool, AddTool,
     [name |-> "echo", properties |-> {<<"text", "string">>}, required |-> {"text"}],
     [name |-> "upper", properties |-> {<<"text", "string">>}, required |-> {"text"}],
     [name |-> "upper", properties |-> {<<"text", "string">>}, required |-> {}],
     NotATool}

(* ========================== the rate limiter ========================== *)

(* ------------------- middleware/rate_limiting.py ---------------------- *)

\* the X-Forwarded-For value is the sequence of its comma-separated entries,
\* each a sequence of pieces (" " is white space), NoHeader when the request
\* has no such header; the X-Real-IP value is a sequence of pieces, empty
\* when the request has no such header
NoHeader == <<>>

\* str.strip() : white space off both ends
RECURSIVE Strip(_)
Strip(s) ==
    IF s = <<>> THEN <<>>
    ELSE IF Head(s) = " " THEN Strip(Tail(s))
    ELSE IF s[Len(s)] = " " THEN Strip(SubSeq(s, 1, Len(s) - 1))
    ELSE s

\* whether a header is there with a value that is not the empty string
HeaderGiven(h) == h # NoHeader /\ h # << <<>> >>

\* get_real_client_ip with X-Real-IP looked at before X-Forwarded-For
RealIpFirst(request) ==
    IF request.x_real_ip # <<>>
    THEN request.x_real_ip
    ELSE IF HeaderGiven(request.x_forwarded_for)
    THEN Strip(Head(request.x_forwarded_for))
    ELSE <<request.client_host>>

\* rate_limiting.py:22-49
get_real_client_ip(request) ==
    IF HeaderGiven(request.x_forwarded_for)
    THEN Strip(Head(request.x_forwarded_for))
    ELSE IF request.x_real_ip # <<>>
    THEN request.x_real_ip
    ELSE <<request.client_host>>

\* main.py:116-120, 124-125, 163-164, 210-211, 219-220, 230-231, 253-254,
\* 429-430, 440-441 : the routes the application serves, and the limit of the
\* @limiter.limit decorator of each, per minute (0: the route has none)
Routes ==
    {[route |-> "GET /.well-known/oauth-authorization-server", limit |-> 0],
     [route |-> "GET /.well-known/oauth-protected-resource", limit |-> 0],
     [route |-> "POST /register", limit |-> 0],
     [route |-> "GET /.well-known/mcp", limit |-> 20],
     [route |-> "GET /mcp", limit |-> 30],
     [route |-> "HEAD /mcp", limit |-> 30],
     [route |-> "GET /v1/contexts", limit |-> 10],
     [route |-> "POST /v1/contexts", limit |-> 5],
     [route |-> "POST /mcp", limit |-> 50],
     [route |-> "GET /health", limit |-> 100],
     [route |-> "GET /", limit |-> 50]}

RouteNames == {r.route : r \in Routes}
LimitOf(route) == (CHOOSE r \in Routes : r.route = route).limit

\* rate_limiting.py:63-69 and main.py:90 : the limiter checks a request in
\* the decorator of its route only (no middleware is installed that would
\* apply default_limits to the other routes), and it skips a limit whose
\* key is empty
LimitChecked(route, key) == LimitOf(route) # 0 /\ key # <<>>

\* the fixed window of the in-memory storage: the counter is incremented,
\* and the request passes when the new count is within the limit
Hit(count, amount) == count + 1 <= amount

\* an entry of the storage: the count, and the minute it expires at
NoEntry == [count |-> 0, expires |-> 0]

\* the entry a hit at a minute leaves: a first hit, or a hit on an expired
\* entry, starts a window of one minute
Incr(entry, at) ==
    IF entry.count = 0 \/ entry.expires <= at
    THEN [count |-> 1, expires |-> at + 1]
    ELSE [entry EXCEPT !.count = @ + 1]

(* --------------------------- limiter inputs --------------------------- *)

\* the requests of the model: a direct one; one behind a proxy that names
\* another client in X-Forwarded-For and carries X-Real-IP too; one whose
\* X-Forwarded-For value is the empty string, with X-Real-IP; one with
\* X-Real-IP only; and one whose X-Forwarded-For value starts with a comma
Headers ==
    {[x_forwarded_for |-> NoHeader, x_real_ip |-> NoHeader, client_host |-> "10.0.0.1"],
     [x_forwarded_for |-> << <<" ", "10.0.0.2", " ">>, <<" ", "10.0.0.9">> >>,
      x_real_ip |-> <<"10.0.0.3">>, client_host |-> "10.0.0.1"],
     [x_forwarded_for |-> << <<>> >>, x_real_ip |-> <<"10.0.0.3">>,
      client_host |-> "10.0.0.1"],
     [x_forwarded_for |-> NoHeader, x_real_ip |-> <<"10.0.0.3">>,
      client_host |-> "10.0.0.1"],
     [x_forwarded_for |-> << <<>>, <<" ", "10.0.0.1">> >>, x_real_ip |-> NoHeader,
      client_host |-> "10.0.0.1"]}

ClientKeys == {get_real_client_ip(h) : h \in Headers}
Cells == ClientKeys \X RouteNames

(* ------------------------------ state --------------------------------- *)

VARIABLES
    clock,      \* the wall clock, in seconds
    pc,         \* where the request in progress stands
    call,       \* the request in progress: how it came in and its inputs
    t0,         \* the clock when the request came in
    jwks,       \* validate_cognito_token: the key set it fetched
    rsa_key,    \* validate_cognito_token: the key the token selected
    nowDecode,  \* the clock the claims were checked against
    nowPolicy,  \* current_time of the age check
    fetched,    \* the URLs this call issued a GET for, in order
    result,     \* what validate_cognito_token returned or raised
    response,   \* what get_current_user returned or raised
    stage,         \* /mcp: where the request in progress stands
    mcp_request,   \* /mcp: the parsed body of a POST
    user,          \* /mcp: what the dependency get_current_user ended in
    request_id,    \* mcp_handler: the id it generated for the request
    tool_call,     \* mcp_handler: tool_name and arguments of a tools/call
    invoked,       \* the tool whose safe_execute was awaited, and whether
                   \* its execute ran
    logged,        \* the error lines the request logged
    http_response, \* /mcp: the response of the route
    minute,        \* limiter: the clock, in minutes
    waiting,       \* limiter: the requests in flight that are not yet checked
    arrived,       \* limiter: the requests that arrived in this minute
    storage,       \* limiter: the counter of each (key, route)
    tally,         \* the requests of each (key, route) let through and
                   \* rejected in this minute,
    earlier,       \* the request and the response a client keeps of its
                   \* last POST of /mcp
    contexts_db,   \* main.py:99 : the stored contexts in the order they were
                   \* created, each under its key
    answered,      \* the last request of a protected route that was
                   \* answered, and its response
    registry_call  \* registry: the last call of register_tool or
                   \* unregister_tool and what it ended in

verifierVars ==
    <<clock, pc, call, t0, jwks, rsa_key, nowDecode, nowPolicy, fetched, result, response>>

dispatcherVars ==
    <<stage, http_request, mcp_request, user, request_id, tool_call, invoked, logged,
      http_response, client_type>>

limiterVars == <<minute, waiting, arrived, storage, tally>>

appVars == <<tools, registry_call, earlier, contexts_db, answered>>

vars == <<verifierVars, dispatcherVars, limiterVars, appVars>>

\* the tally of a (key, route) without requests; a slot without a request
NoTally == [allowed |-> 0, rejected |-> 0]
NotWaiting == [headers |-> CHOOSE h \in Headers : TRUE, route |-> ""]

NoHttpRequest == [method |-> "", path |-> "", headers |-> NoClientHeaders]
NoToolCall == [tool_name |-> JAbsent, arguments |-> NoArguments]
NoneInvoked == [entered |-> {}, executed |-> FALSE]

NoneAnswered == [route |-> "", status_code |-> 0, contexts |-> <<>>]

NoneEarlier ==
    [method |-> "", headers |-> NoClientHeaders, mcp_request |-> NoRequest,
     user |-> NoResponse, request_id |-> "", http_response |-> NoHttpResponse]

NoRegistryCall == [op |-> "", name |-> Absent, warned |-> FALSE, raised |-> ""]

NoCall == [via |-> "none", auth |-> NoAuthHeader, token |-> BaseToken,
           cfg |-> get_cognito_config, required |-> {}]

Init ==
    /\ clock = Now0
    /\ pc = "idle"
    /\ call = NoCall
    /\ t0 = Now0
    /\ jwks = <<>>
    /\ rsa_key = NoKey
    /\ nowDecode = NoTime
    /\ nowPolicy = NoTime
    /\ fetched = <<>>
    /\ result = NoResult
    /\ response = NoResponse
    /\ stage = "idle"
    /\ http_request = NoHttpRequest
    /\ mcp_request = NoRequest
    /\ user = NoResponse
    /\ request_id = ""
    /\ tool_call = NoToolCall
    /\ invoked = NoneInvoked
    /\ logged = <<>>
    /\ http_response = NoHttpResponse
    /\ client_type = ""
    /\ minute = 0
    /\ waiting = [i \in 1..MaxInFlight |-> NotWaiting]
    /\ arrived = 0
    /\ storage = [c \in Cells |-> NoEntry]
    /\ tally = [c \in Cells |-> NoTally]
    /\ tools = default_tools
    /\ registry_call = NoRegistryCall
    /\ earlier = NoneEarlier
    /\ contexts_db = <<>>
    /\ answered = NoneAnswered

Free == pc = "idle"

Begin(c) ==
    /\ call' = c
    /\ t0' = clock
    /\ jwks' = <<>>
    /\ rsa_key' = NoKey
    /\ nowDecode' = NoTime
    /\ nowPolicy' = NoTime
    /\ fetched' = <<>>
    /\ result' = NoResult
    /\ UNCHANGED clock

\* validate_cognito_token ends: back in get_current_user, or at the caller
Finish(r) ==
    /\ result' = r
    /\ pc' = IF call.via = "http" THEN "respond" ELSE "done"

\* the inputs a direct caller of validate_cognito_token passes
DirectInputs ==
    {<<t, get_cognito_config, r>> : t \in Tokens, r \in ScopeSets}
    \cup {<<t, c, {}>> : t \in {BaseToken} \cup Variants(BaseToken), c \in Configs}

(* ------------------------------ actions ------------------------------- *)

\* cognito.py:199-213 : a request to a protected endpoint reaches
\* get_current_user; without credentials it is answered at once
GetCurrentUser(auth) ==
    /\ Free
    /\ Begin([via |-> "http", auth |-> [auth EXCEPT !.token = BaseToken],
              token |-> auth.token,
              cfg |-> get_cognito_config, required |-> {}])
    /\ IF ~security(auth)
       THEN /\ response' = MissingCredentialsResponse
            /\ pc' = "done"
       ELSE /\ response' = NoResponse
            /\ pc' = "format"
    /\ UNCHANGED <<dispatcherVars, limiterVars, appVars>>

\* cognito.py:31-52 : validate_cognito_token called with its own arguments
ValidateCognitoToken(token, cfg, required) ==
    /\ Free
    /\ Begin([via |-> "direct", auth |-> NoAuthHeader, token |-> token,
              cfg |-> cfg, required |-> required])
    /\ response' = NoResponse
    /\ pc' = "format"
    /\ UNCHANGED <<dispatcherVars, limiterVars, appVars>>

\* cognito.py:55-57
CheckFormat ==
    /\ pc = "format"
    /\ IF ~validate_jwt_token_format(call.token)
       THEN Finish(Raised("MalformedToken", "", "InvalidTokenError", <<"Invalid token format">>))
       ELSE pc' = "trust" /\ UNCHANGED result
    /\ UNCHANGED <<clock, call, t0, jwks, rsa_key, nowDecode, nowPolicy, fetched, response>>
    /\ UNCHANGED <<dispatcherVars, limiterVars, appVars>>

\* cognito.py:64-68, 82-84
CheckJwksUrl ==
    /\ pc = "trust"
    /\ IF JwksUrlRefused(call.cfg.jwks_url)
       THEN Finish(Raised("UntrustedKeySource", "ValueError", "InvalidTokenError",
                          <<"JWKS validation failed">>))
       ELSE pc' = "fetch" /\ UNCHANGED result
    /\ UNCHANGED <<clock, call, t0, jwks, rsa_key, nowDecode, nowPolicy, fetched, response>>
    /\ UNCHANGED <<dispatcherVars, limiterVars, appVars>>

\* cognito.py:72-84 : the GET and what it ends in
FetchJwks ==
    /\ pc = "fetch"
    /\ fetched' = Append(fetched, call.cfg.jwks_url)
    /\ \E o \in FetchOutcomes(call.cfg.jwks_url) :
          CASE o.status = "ok" ->
                  /\ jwks' = o.keys
                  /\ pc' = "key"
                  /\ UNCHANGED result
            [] o.status = "timeout" ->
                  /\ Finish(Raised("KeySourceUnavailable", "TimeoutException",
                                   "InvalidTokenError", <<"Token validation timeout">>))
                  /\ UNCHANGED jwks
            [] o.status = "http_status" ->
                  /\ Finish(Raised("KeySourceUnavailable", "HTTPStatusError",
                                   "InvalidTokenError", <<"Unable to fetch JWKS">>))
                  /\ UNCHANGED jwks
            [] OTHER ->
                  /\ Finish(Raised("KeySourceUnavailable", "Exception",
                                   "InvalidTokenError", <<"JWKS validation failed">>))
                  /\ UNCHANGED jwks
    /\ UNCHANGED <<clock, call, t0, rsa_key, nowDecode, nowPolicy, response>>
    /\ UNCHANGED <<dispatcherVars, limiterVars, appVars>>

\* cognito.py:87-109
SelectKey ==
    /\ pc = "key"
    /\ rsa_key' = ResolveKey(call.token, jwks)
    /\ IF ResolveKey(call.token, jwks) = NoKey
       THEN Finish(Raised("UnknownSigningKey", "", "InvalidTokenError",
                          <<"Key resolution failed">>))
       ELSE pc' = "decode" /\ UNCHANGED result
    /\ UNCHANGED <<clock, call, t0, jwks, nowDecode, nowPolicy, fetched, response>>
    /\ UNCHANGED <<dispatcherVars, limiterVars, appVars>>

\* cognito.py:112-140
DecodeToken ==
    /\ pc = "decode"
    /\ nowDecode' = clock
    /\ IF DecodeAndValidate(call.token, rsa_key, call.cfg, clock).ok
       THEN pc' = "policy" /\ UNCHANGED result
       ELSE Finish(RaiseDecode(DecodeAndValidate(call.token, rsa_key, call.cfg, clock)))
    /\ UNCHANGED <<clock, call, t0, jwks, rsa_key, nowPolicy, fetched, response>>
    /\ UNCHANGED <<dispatcherVars, limiterVars, appVars>>

\* cognito.py:143-179
CheckPolicy ==
    /\ pc = "policy"
    /\ nowPolicy' = clock
    /\ IF PolicyFailure(call.token.claims, call.required, clock) = ""
       THEN Finish(Returned)
       ELSE Finish(Raised(PolicyFailure(call.token.claims, call.required, clock),
                          "InvalidTokenError", "InvalidTokenError",
                          <<"Token security validation failed">>))
    /\ UNCHANGED <<clock, call, t0, jwks, rsa_key, nowDecode, fetched, response>>
    /\ UNCHANGED <<dispatcherVars, limiterVars, appVars>>

\* cognito.py:215-231 : which exception create_http_exception is given
HandledType(r) ==
    IF r.excType = "ExpiredSignatureError" THEN "ExpiredSignatureError" ELSE r.excType

\* cognito.py:215-231
Respond ==
    /\ pc = "respond"
    /\ response' = IF result.state = "ok"
                   THEN UserReturned(call.token.claims)
                   ELSE create_http_exception(HandledType(result))
    /\ pc' = "done"
    /\ UNCHANGED <<clock, call, t0, jwks, rsa_key, nowDecode, nowPolicy, fetched, result>>
    /\ UNCHANGED <<dispatcherVars, limiterVars, appVars>>

\* the request is over: its locals are dropped
Complete ==
    /\ pc = "done"
    /\ pc' = "idle"
    /\ Begin(NoCall)
    /\ response' = NoResponse
    /\ UNCHANGED <<dispatcherVars, limiterVars, appVars>>

\* time passes while a request is in progress
Tick ==
    /\ pc \notin {"idle", "done"}
    /\ clock < Now0 + MaxTick
    /\ clock' = clock + 1
    /\ UNCHANGED <<pc, call, t0, jwks, rsa_key, nowDecode, nowPolicy, fetched, result, response>>
    /\ UNCHANGED <<dispatcherVars, limiterVars, appVars>>

Next ==
    \/ Free /\ \E auth \in AuthHeaders : GetCurrentUser(auth)
    \/ Free /\ \E in \in DirectInputs : ValidateCognitoToken(in[1], in[2], in[3])
    \/ CheckFormat
    \/ CheckJwksUrl
    \/ FetchJwks
    \/ SelectKey
    \/ DecodeToken
    \/ CheckPolicy
    \/ Respond
    \/ Complete
    \/ Tick

Spec == Init /\ [][Next]_vars

(* ----------------------- actions of the /mcp route -------------------- *)

Quiet == stage = "idle"

\* the locals of a request of the /mcp route before its handler ran
Arrive(http_method, headers) ==
    /\ http_request' = [method |-> http_method, path |-> "/mcp", headers |-> headers]
    /\ tool_call' = NoToolCall
    /\ invoked' = NoneInvoked
    /\ logged' = <<>>

\* main.py:253-270 : a POST of /mcp; the dependency get_current_user ends
\* the request, or hands the handler its user
PostMcp(body, dep, rid, headers) ==
    /\ Quiet
    /\ Arrive("POST", headers)
    /\ mcp_request' = MCPRequest(body[1], body[2], body[3])
    /\ user' = dep
    /\ IF dep.outcome = "user"
       THEN /\ request_id' = rid
            /\ client_type' = detect_client_securely(headers)
            /\ http_response' = NoHttpResponse
            /\ stage' = "dispatch"
       ELSE /\ request_id' = ""
            /\ client_type' = ""
            /\ http_response' = ExceptionResponse(dep)
            /\ stage' = "done"
    /\ UNCHANGED <<verifierVars, limiterVars, appVars>>

\* main.py:272-366, 395-427 : the branch of the method; tools/call reads
\* params and goes on to the registry
Dispatch ==
    /\ stage = "dispatch"
    /\ IF Branch(mcp_request.method) # "tools/call"
       THEN /\ http_response' = PlainResponse(mcp_request)
            /\ stage' = "done"
            /\ UNCHANGED <<tool_call, logged>>
       ELSE IF mcp_request.params.t = "null"
       THEN /\ http_response' = InternalErrorResponse(mcp_request, "AttributeError", request_id)
            /\ logged' = Append(logged, ErrorLine("AttributeError", request_id))
            /\ stage' = "done"
            /\ UNCHANGED tool_call
       ELSE /\ tool_call' =
                  [tool_name |-> IF mcp_request.params.name.t = "absent"
                                 THEN JNull ELSE mcp_request.params.name,
                   arguments |-> IF mcp_request.params.arguments.t = "absent"
                                 THEN Arguments({}) ELSE mcp_request.params.arguments]
            /\ stage' = "tool"
            /\ UNCHANGED <<http_response, logged>>
    /\ UNCHANGED <<http_request, mcp_request, user, request_id, invoked, client_type>>
    /\ UNCHANGED <<verifierVars, limiterVars, appVars>>

\* main.py:368-393, 409-427 : await tool_registry.execute_tool(...)
CallTool ==
    /\ stage = "tool"
    /\ LET outcome == execute_tool(tool_call.tool_name, tool_call.arguments)
       IN  /\ invoked' = [entered |-> outcome.entered, executed |-> outcome.executed]
           /\ IF outcome.raised \in {"", "ValueError"}
              THEN /\ http_response' =
                         ToolsCallResponse(mcp_request, tool_call.tool_name, outcome)
                   /\ UNCHANGED logged
              ELSE /\ http_response' =
                         InternalErrorResponse(mcp_request, outcome.raised, request_id)
                   /\ logged' = Append(logged, ErrorLine(outcome.raised, request_id))
    /\ stage' = "done"
    /\ UNCHANGED <<http_request, mcp_request, user, request_id, tool_call, client_type>>
    /\ UNCHANGED <<verifierVars, limiterVars, appVars>>

\* main.py:163-207 : GET /mcp
McpGet(bearer, headers) ==
    /\ Quiet
    /\ Arrive("GET", headers)
    /\ client_type' = detect_client_securely(headers)
    /\ http_response' = MetadataResponse(bearer)
    /\ stage' = "done"
    /\ UNCHANGED <<mcp_request, user, request_id>>
    /\ UNCHANGED <<verifierVars, limiterVars, appVars>>

\* main.py:210-215 : HEAD /mcp
McpHead(headers) ==
    /\ Quiet
    /\ Arrive("HEAD", headers)
    /\ client_type' = ""
    /\ http_response' = EmptyResponse
    /\ stage' = "done"
    /\ UNCHANGED <<mcp_request, user, request_id>>
    /\ UNCHANGED <<verifierVars, limiterVars, appVars>>

\* the locals of the request are dropped
Drop ==
    /\ stage = "done"
    /\ stage' = "idle"
    /\ http_request' = NoHttpRequest
    /\ mcp_request' = NoRequest
    /\ user' = NoResponse
    /\ request_id' = ""
    /\ tool_call' = NoToolCall
    /\ invoked' = NoneInvoked
    /\ logged' = <<>>
    /\ http_response' = NoHttpResponse
    /\ client_type' = ""

\* the response is sent
Sent ==
    /\ Drop
    /\ UNCHANGED <<verifierVars, limiterVars, appVars>>

McpNext ==
    \/ Quiet /\ \E body \in Bodies, dep \in Dependencies, rid \in RequestIds,
                    headers \in SomeClientHeaders :
                    PostMcp(body, dep, rid, headers)
    \/ Dispatch
    \/ CallTool
    \/ Quiet /\ \E bearer \in BOOLEAN, headers \in AllClientHeaders : McpGet(bearer, headers)
    \/ \E headers \in SomeClientHeaders : McpHead(headers)
    \/ Sent

McpSpec == Init /\ [][McpNext]_vars

\* the response is sent, and the client keeps the request and the response
\* to compare the next one with
SentAndKept ==
    /\ Drop
    /\ earlier' = [method |-> http_request.method, headers |-> http_request.headers,
                   mcp_request |-> mcp_request, user |-> user, request_id |-> request_id,
                   http_response |-> http_response]
    /\ UNCHANGED <<tools, registry_call, contexts_db, answered>>
    /\ UNCHANGED <<verifierVars, limiterVars>>

\* POST /mcp, a client comparing the responses of consecutive requests
TwinBodies ==
    {<<m, p, JInt(7)>> :
        m \in {"initialize", "tools/call", "ping"},
        p \in {NoParams, NullParams,
               Params(JText("echo", 4), Arguments({<<"message", JText("hi", 2)>>})),
               Params(JText("add", 3), Arguments({<<"a", JInt(2)>>}))}}

TwinNext ==
    \/ Quiet /\ \E body \in TwinBodies,
                    dep \in {UserReturned(BaseClaims), MissingCredentialsResponse,
                             create_http_exception("InvalidTokenError")},
                    headers \in SomeClientHeaders :
                    PostMcp(body, dep, "3f9a1c0e5b7d2a46", headers)
    \/ Dispatch
    \/ CallTool
    \/ SentAndKept

TwinSpec == Init /\ [][TwinNext]_vars

(* ----------------------- actions of the limiter ----------------------- *)

\* the routes that have requests in this minute (the clients of the model
\* call one route per minute)
Busy == {c[2] : c \in {c \in Cells : tally[c] # NoTally}}
            \cup {waiting[i].route : i \in {i \in DOMAIN waiting : waiting[i] # NotWaiting}}

\* a request arrives; it is not yet checked (requests are concurrent)
RateArrive(headers, route) ==
    /\ arrived < MaxRequests
    /\ \E i \in DOMAIN waiting :
          /\ waiting[i] = NotWaiting
          /\ \A j \in DOMAIN waiting : j < i => waiting[j] # NotWaiting
          /\ waiting' = [waiting EXCEPT ![i] = [headers |-> headers, route |-> route]]
    /\ arrived' = arrived + 1
    /\ UNCHANGED <<minute, storage, tally>>
    /\ UNCHANGED <<verifierVars, dispatcherVars, appVars>>

\* the decorator of the route checks the request in one step of the event
\* loop, and the handler runs or RateLimitExceeded is answered with 429
LimitPasses(route, key) ==
    \/ ~LimitChecked(route, key)
    \/ Hit(IF storage[<<key, route>>].expires <= minute
           THEN 0 ELSE storage[<<key, route>>].count,
           LimitOf(route))

LimitStep(i) ==
    /\ waiting[i] # NotWaiting
    /\ LET route == waiting[i].route
           key == get_real_client_ip(waiting[i].headers)
           cell == <<key, route>>
       IN  /\ storage' = IF LimitChecked(route, key)
                         THEN [storage EXCEPT ![cell] = Incr(@, minute)]
                         ELSE storage
           /\ tally' = IF LimitPasses(route, key)
                       THEN [tally EXCEPT ![cell].allowed = @ + 1]
                       ELSE [tally EXCEPT ![cell].rejected = @ + 1]
    /\ waiting' = [waiting EXCEPT ![i] = NotWaiting]
    /\ UNCHANGED <<minute, arrived>>

CheckLimit(i) ==
    /\ LimitStep(i)
    /\ UNCHANGED <<verifierVars, dispatcherVars, appVars>>

\* a minute passes once the requests in flight are answered: the entries
\* that expire are dropped, and the tally of the minute starts again
RateTick ==
    /\ minute < MaxMinute
    /\ \A i \in DOMAIN waiting : waiting[i] = NotWaiting
    /\ minute' = minute + 1
    /\ storage' = [c \in Cells |-> IF storage[c].expires <= minute + 1
                                   THEN NoEntry ELSE storage[c]]
    /\ tally' = [c \in Cells |-> NoTally]
    /\ arrived' = 0
    /\ UNCHANGED waiting
    /\ UNCHANGED <<verifierVars, dispatcherVars, appVars>>

RateNext ==
    \/ \E headers \in Headers, route \in (IF Busy = {} THEN RouteNames ELSE Busy) :
            RateArrive(headers, route)
    \/ \E i \in 1..MaxInFlight : CheckLimit(i)
    \/ RateTick

RateSpec == Init /\ [][RateNext]_vars

(* ----------------------- actions of the registry ---------------------- *)

\* registry.py:49-68 (and 184-192, register_custom_tool)
register_tool(tool) ==
    /\ IF tool = NotATool
       THEN /\ registry_call' = [op |-> "register_tool", name |-> Absent,
                                 warned |-> FALSE, raised |-> "ValueError"]
            /\ UNCHANGED tools
       ELSE /\ registry_call' = [op |-> "register_tool", name |-> tool.name,
                                 warned |-> tool.name \in {tl.name : tl \in tools},
                                 raised |-> ""]
            /\ tools' = {tl \in tools : tl.name # tool.name} \cup {tool}
    /\ UNCHANGED <<earlier, contexts_db, answered>>
    /\ UNCHANGED <<verifierVars, dispatcherVars, limiterVars>>

\* registry.py:70-86
unregister_tool(tool_name) ==
    /\ registry_call' = [op |-> "unregister_tool", name |-> tool_name,
                         warned |-> tool_name \notin {tl.name : tl \in tools},
                         raised |-> ""]
    /\ tools' = {tl \in tools : tl.name # tool_name}
    /\ UNCHANGED <<earlier, contexts_db, answered>>
    /\ UNCHANGED <<verifierVars, dispatcherVars, limiterVars>>

RegistryNext ==
    \/ \E tool \in Registrable : register_tool(tool)
    \/ \E tool_name \in {"echo", "add", "upper"} : unregister_tool(tool_name)

RegistrySpec == Init /\ [][RegistryNext]_vars

\* the limiter with the requests served one at a time, within one minute
SerialNext ==
    \/ \E headers \in Headers, route \in (IF Busy = {} THEN RouteNames ELSE Busy) :
            /\ \A i \in DOMAIN waiting : waiting[i] = NotWaiting
            /\ RateArrive(headers, route)
    \/ CheckLimit(1)

SerialSpec == Init /\ [][SerialNext]_vars

(* -------------------- actions of a protected route -------------------- *)

\* a request of the route is in progress
InProgress == waiting[1] # NotWaiting

\* main.py:219-249 : FastAPI has the value of Depends(get_current_user) and
\* calls the endpoint, which is the wrapper of @limiter.limit: the limit is
\* checked, and the handler runs or the request is answered with 429
CallEndpoint(context_data) ==
    /\ pc = "done" /\ InProgress
    /\ response.outcome = "user"
    /\ LimitStep(1)
    /\ LET route == waiting[1].route
           passes == LimitPasses(route, get_real_client_ip(waiting[1].headers))
       IN  CASE ~passes ->
                  /\ answered' = [route |-> route, status_code |-> 429, contexts |-> <<>>]
                  /\ UNCHANGED contexts_db
             [] passes /\ route = "POST /v1/contexts" ->
                  /\ contexts_db' = create_context(contexts_db, response.user, context_data)
                  /\ answered' =
                        [route |-> route, status_code |-> 200,
                         contexts |-> <<new_context(uuid4(Len(contexts_db) + 1),
                                                    response.user, context_data)>>]
             [] OTHER ->
                  /\ answered' = [route |-> route, status_code |-> 200,
                                  contexts |-> get_contexts(contexts_db, response.user)]
                  /\ UNCHANGED contexts_db
    /\ UNCHANGED <<tools, registry_call, earlier>>
    /\ UNCHANGED <<verifierVars, dispatcherVars>>

\* the dependency raised: FastAPI answers with the HTTPException and the
\* endpoint is not called
DependencyRaised ==
    /\ pc = "done" /\ InProgress
    /\ response.outcome # "user"
    /\ answered' = [route |-> waiting[1].route, status_code |-> response.status_code,
                    contexts |-> <<>>]
    /\ waiting' = [waiting EXCEPT ![1] = NotWaiting]
    /\ UNCHANGED <<minute, arrived, storage, tally>>
    /\ UNCHANGED <<tools, registry_call, earlier, contexts_db>>
    /\ UNCHANGED <<verifierVars, dispatcherVars>>

\* the requests of the protected routes: two clients, with or without the
\* token the identity provider issued u1
RouteHeaders ==
    {h \in Headers : get_real_client_ip(h) \in {<<"10.0.0.1">>, <<"10.0.0.2">>}}

RouteNext ==
    \/ \E headers \in RouteHeaders, route \in {"POST /v1/contexts", "GET /v1/contexts"} :
            /\ pc = "idle" /\ ~InProgress
            /\ RateArrive(headers, route)
    \/ \E auth \in {NoAuthHeader, AuthHeader("Bearer", TokenOf("u1"))} :
            InProgress /\ GetCurrentUser(auth)
    \/ CheckFormat
    \/ CheckJwksUrl
    \/ FetchJwks
    \/ SelectKey
    \/ DecodeToken
    \/ CheckPolicy
    \/ Respond
    \/ CallEndpoint({<<"name", JText("notes", 5)>>})
    \/ DependencyRaised
    \/ ~InProgress /\ Complete

RouteSpec == Init /\ [][RouteNext]_vars

(* ----------------------- actions of /v1/contexts ---------------------- *)

\* main.py:229-249 : the handler of POST /v1/contexts, given the user
PostContexts(sub, context_data) ==
    /\ Len(contexts_db) < MaxContexts
    /\ contexts_db' = create_context(contexts_db, sub, context_data)
    /\ answered' = [route |-> "POST /v1/contexts", status_code |-> 200,
                    contexts |-> <<new_context(uuid4(Len(contexts_db) + 1),
                                               sub, context_data)>>]
    /\ UNCHANGED <<tools, registry_call, earlier>>
    /\ UNCHANGED <<verifierVars, dispatcherVars, limiterVars>>

\* main.py:218-227 : the handler of GET /v1/contexts, given the user
GetContexts(sub) ==
    /\ answered' = [route |-> "GET /v1/contexts", status_code |-> 200,
                    contexts |-> get_contexts(contexts_db, sub)]
    /\ UNCHANGED contexts_db
    /\ UNCHANGED <<tools, registry_call, earlier>>
    /\ UNCHANGED <<verifierVars, dispatcherVars, limiterVars>>

ContextNext ==
    \/ \E sub \in {"u1", "u2"}, context_data \in ContextBodies :
            PostContexts(sub, context_data)
    \/ \E sub \in {"u1", "u2"} : GetContexts(sub)

ContextSpec == Init /\ [][ContextNext]_vars



(* ====================== properties of the verifier ==================== *)

Ended == pc \in {"respond", "done"} /\ call.via # "none"
Presented == call.via = "direct" \/ security(call.auth)
Accepted == result.state = "ok"
Claims == call.token.claims
Iat == IF "iat" \in Claims.present THEN Claims.iat ELSE 0

\* C1: a token whose signature does not verify, as RS256, under the key its
\* key id selected is never accepted, whatever its claims: once the decode has
\* run it has failed as SignatureOrClaimInvalid, and get_current_user returns
\* no user for it.
C1_InvalidSignatureRejected ==
    (rsa_key # NoKey /\ ~VerifySignature("RS256", rsa_key, call.token.sig)) =>
        /\ ~Accepted
        /\ response.outcome # "user"
        /\ nowDecode # NoTime =>
              result.state = "raised" /\ result.kind = "SignatureOrClaimInvalid"

\* a tampered signature on otherwise valid claims, refused with 401
C1_Witness ==
    /\ pc = "done" /\ call.via = "http"
    /\ rsa_key = "pub_k1" /\ ~call.token.sig.intact
    /\ call.token.claims = BaseClaims /\ call.token.header = BaseHeader
    /\ result.kind = "SignatureOrClaimInvalid" /\ result.reason = "InvalidSignatureError"
    /\ response.status_code = 401

\* C2: the algorithm is pinned to RS256: a token whose header declares any
\* other algorithm is never accepted, whatever its claims, its signature and
\* the fetched key set; once the decode has run it has failed.
C2_AlgorithmPinned ==
    (call.via # "none" /\ call.token.header.alg # "RS256") =>
        /\ ~Accepted
        /\ response.outcome # "user"
        /\ nowDecode # NoTime =>
              /\ result.state = "raised"
              /\ result.reason \in {"InvalidAlgorithmError", "DecodeError"}

\* an HS256 token whose HMAC was made with the public key as the secret
C2_Witness ==
    /\ pc = "done"
    /\ call.token.header.alg = "HS256"
    /\ call.token.sig = [alg |-> "HS256", key |-> "pub_k1", intact |-> TRUE]
    /\ rsa_key = "pub_k1"
    /\ call.token.claims = BaseClaims
    /\ result.reason = "InvalidAlgorithmError"

(* the URL notions the key-source claim speaks of *)
UrlScheme(url) == url[1]
RECURSIVE UpToSlash(_)
UpToSlash(s) ==
    IF s = <<>> \/ Head(s) = "/" THEN <<>> ELSE <<Head(s)>> \o UpToSlash(Tail(s))
UrlHost(url) == UpToSlash(Tail(url))
AwsRegions == {"us-east-1", "eu-west-1"}
IdentityProviderUrl(url) ==
    /\ UrlScheme(url) = "https://"
    /\ \E r \in AwsRegions : UrlHost(url) = <<"cognito-idp.", r, ".amazonaws.com">>

\* C3: the key set is fetched only from an HTTPS endpoint whose host is
\* cognito-idp.<region>.amazonaws.com; for any other configured jwks_url the
\* verification fails as untrusted key source and no fetch is issued.
C3_KeysOnlyFromIdentityProvider ==
    /\ \A i \in 1..Len(fetched) : IdentityProviderUrl(fetched[i])
    /\ (Ended /\ validate_jwt_token_format(call.token)
              /\ ~IdentityProviderUrl(call.cfg.jwks_url)) =>
          result.kind = "UntrustedKeySource" /\ fetched = <<>>

\* the signature and algorithm check passed and no earlier claim check failed
ReachedExpiryCheck ==
    /\ nowDecode # NoTime
    /\ Claims.json
    /\ call.token.header.alg = "RS256"
    /\ VerifySignature("RS256", rsa_key, call.token.sig)
    /\ ~("iat" \in Claims.present /\ Claims.iat > nowDecode)
    /\ ~("nbf" \in Claims.present /\ Claims.nbf > nowDecode)

\* C4 as stated, for the tokens that get as far as the signature and claim
\* check: every such token with expiresAt < now fails as expired, and
\* get_current_user answers 401 "Token has expired".
C4_EveryExpiredTokenFailsAsExpired ==
    (pc = "done" /\ nowDecode # NoTime /\ Claims.json
        /\ "exp" \in Claims.present /\ Claims.exp < nowDecode) =>
        /\ result.kind = "Expired"
        /\ call.via = "http" =>
              response.status_code = 401 /\ response.detail = <<"Token has expired">>

\* C4 amended: a token that passed the structural, key-source, key-lookup and
\* signature checks and whose iat and nbf are not in the future, with
\* expiresAt <= now, fails as expired (ExpiredSignatureError, not the generic
\* failure), get_current_user answers 401 "Token has expired", and that
\* message is given for no other failure.
C4_ExpiredAfterEarlierGates ==
    /\ (Ended /\ ReachedExpiryCheck /\ "exp" \in Claims.present
              /\ Claims.exp <= nowDecode) =>
          /\ result.state = "raised"
          /\ result.kind = "Expired"
          /\ result.excType = "ExpiredSignatureError"
          /\ pc = "done" /\ call.via = "http" =>
                response.status_code = 401 /\ response.detail = <<"Token has expired">>
    /\ (result.kind = "Expired" \/ response.detail = <<"Token has expired">>) =>
          /\ result.kind = "Expired"
          /\ "exp" \in Claims.present /\ Claims.exp <= nowDecode
          /\ result.excType # "InvalidTokenError"

\* an expired token of another issuer: expired wins, 401 "Token has expired"
C4_Witness ==
    /\ pc = "done" /\ call.via = "http"
    /\ Claims.exp = Now0 - 1 /\ Claims.iss = OtherIss
    /\ result.kind = "Expired"
    /\ response.status_code = 401 /\ response.detail = <<"Token has expired">>

\* C5: an accepted payload carries iat and exp, with iat <= now <= exp and
\* now - iat <= 24 hours at the time of the checks.
C5_AcceptedWithinValidity ==
    Accepted =>
        /\ "iat" \in Claims.present /\ "exp" \in Claims.present
        /\ Claims.iat <= nowDecode /\ nowDecode <= Claims.exp
        /\ nowPolicy - Claims.iat <= MaxAge

\* C5 for the tokens that carry exp (what the code does guarantee)
C5_WithExp ==
    (Accepted /\ "exp" \in Claims.present) =>
        /\ "iat" \in Claims.present
        /\ Claims.iat <= nowDecode /\ nowDecode < Claims.exp
        /\ nowPolicy - Claims.iat <= MaxAge

\* the policy checks that come before the age check pass
PassedEarlierPolicy ==
    /\ nowPolicy # NoTime
    /\ "token_use" \in Claims.present /\ Claims.token_use \in {"id", "access"}
    /\ ~(call.required # {} /\ Claims.token_use = "access"
            /\ ~(call.required \subseteq Split(Claims.scope)))
    /\ "sub" \in Claims.present /\ Claims.sub # ""

\* C6 as stated, for the tokens that get as far as the policy checks: every
\* such token with now - issuedAt > 24 hours fails as TokenTooOld and as no
\* other policy check.
C6_EveryOldTokenFailsAsTooOld ==
    (pc = "done" /\ nowPolicy # NoTime
        /\ "iat" \in Claims.present /\ nowPolicy - Claims.iat > MaxAge) =>
        result.kind = "TokenTooOld"

\* C6 amended: a token that passed every earlier gate (structure, key source,
\* key lookup, signature and registered claims, token use, scope, subject)
\* with now - issuedAt > 24 hours fails at the age check (TokenTooOld), even
\* if not expired, raised like every policy failure as InvalidTokenError
\* "Token security validation failed"; the age check fails only such a token,
\* and a token that passed the earlier gates and is not older is accepted.
C6_TooOldAfterEarlierGates ==
    /\ (Ended /\ PassedEarlierPolicy /\ nowPolicy - Iat > MaxAge) =>
          /\ result.state = "raised" /\ result.kind = "TokenTooOld"
          /\ result.excType = "InvalidTokenError"
          /\ result.excMsg = <<"Token security validation failed">>
    /\ result.kind = "TokenTooOld" =>
          PassedEarlierPolicy /\ nowPolicy - Iat > MaxAge
    /\ (Ended /\ PassedEarlierPolicy /\ nowPolicy - Iat <= MaxAge) => Accepted

\* a token issued more than 24 hours ago that has not expired
C6_Witness ==
    /\ pc = "done"
    /\ "iat" \in Claims.present /\ nowPolicy - Claims.iat > MaxAge
    /\ "exp" \in Claims.present /\ Claims.exp > nowPolicy
    /\ result.kind = "TokenTooOld"

\* C7 as stated: a token that carries aud is accepted only if aud equals the
\* configured client id.
C7_AudEqualsClientId ==
    (Accepted /\ HasAudience(call.token)) => Claims.aud = AudStr(call.cfg.client_id)

\* C7 amended: a token that carries aud is accepted only if aud is the
\* configured client id or an array that contains it; for a token without aud
\* the audience check is skipped: it never fails on its audience.
C7_AudienceConditional ==
    /\ (Accepted /\ HasAudience(call.token)) =>
          /\ call.cfg.client_id \in Claims.aud.vals
          /\ ~AudFalsy(Claims.aud)
    /\ (Ended /\ ReachedExpiryCheck /\ HasAudience(call.token)
              /\ ~("exp" \in Claims.present /\ Claims.exp <= nowDecode)
              /\ "iss" \in Claims.present /\ Claims.iss = IssuerOf(call.cfg)
              /\ call.cfg.client_id \notin Claims.aud.vals) =>
          result.reason \in {"InvalidAudienceError", "MissingRequiredClaimError"}
    /\ (call.via # "none" /\ ~HasAudience(call.token)) =>
          /\ result.reason # "InvalidAudienceError"
          /\ ~Contains(result.excMsg, "Token is missing the aud claim")

\* an id token whose aud is the client id is accepted
C7_Witness ==
    /\ pc = "done" /\ Accepted
    /\ Claims.aud = AudStr("client-1") /\ HasAudience(call.token)

\* accepted without aud
C7_WitnessNoAud == pc = "done" /\ Accepted /\ ~HasAudience(call.token)

\* C8: once the policy checks have run: a token use outside {id, access}
\* fails; with required scopes and use access the token fails as
\* InsufficientScope unless every required scope is a word of the scope
\* claim; with use id, or no required scopes, the scope claim plays no part:
\* the outcome is decided by the subject and the age alone.
C8_ScopePolicy ==
    (Ended /\ nowPolicy # NoTime) =>
        IF ~("token_use" \in Claims.present /\ Claims.token_use \in {"id", "access"})
        THEN result.kind = "InvalidTokenUse"
        ELSE IF call.required # {} /\ Claims.token_use = "access"
        THEN /\ Accepted => \A sc \in call.required : \E i \in 1..Len(Claims.scope) : Claims.scope[i] = sc
             /\ (\E sc \in call.required : \A i \in 1..Len(Claims.scope) : Claims.scope[i] # sc)
                   => result.kind = "InsufficientScope"
        ELSE /\ result.kind # "InsufficientScope"
             /\ Accepted <=> (/\ "sub" \in Claims.present /\ Claims.sub # ""
                              /\ nowPolicy - Iat <= MaxAge)

\* an id token is accepted although a required scope is not in its scope claim
C8_Witness ==
    /\ pc = "done" /\ Accepted
    /\ Claims.token_use = "id"
    /\ "profile" \in call.required /\ ~Contains(Claims.scope, "profile")

GenericMessages == {<<"Invalid authentication token">>, <<"Token has expired">>}

\* C9: whatever makes the verification of a presented bearer token fail,
\* get_current_user raises 401 with one of the two generic messages, and no
\* part of the underlying exception's text is in it.
C9_GenericAuthFailure ==
    (pc = "done" /\ call.via = "http" /\ security(call.auth) /\ result.state = "raised") =>
        /\ response.outcome = "http_exception"
        /\ response.status_code = 401
        /\ response.detail \in GenericMessages
        /\ \A i \in 1..Len(result.excMsg) : ~Contains(response.detail, result.excMsg[i])

\* a bad signature: the library's text stays inside
C9_Witness ==
    /\ pc = "done" /\ call.via = "http"
    /\ result.reason = "InvalidSignatureError"
    /\ result.excMsg = <<"Token validation failed: ", "Signature verification failed">>
    /\ response.status_code = 401
    /\ response.detail = <<"Invalid authentication token">>

\* C10: a request whose Authorization header is missing or malformed, or whose
\* bearer token fails the structural check, is answered 401 with a
\* WWW-Authenticate header that names the protected-resource metadata
\* document.
C10_ChallengeOnMissingOrMalformed ==
    (pc = "done" /\ call.via = "http"
        /\ (~security(call.auth) \/ ~validate_jwt_token_format(call.token))) =>
        /\ response.status_code = 401
        /\ StartsWith(response.www_authenticate, <<"Bearer resource_metadata=\"">>)
        /\ Contains(response.www_authenticate, ".well-known/oauth-protected-resource")

(* ===================== properties of the dispatcher =================== *)

\* a POST of /mcp that passed authentication has its response
Handled == stage = "done" /\ http_request.method = "POST" /\ user.outcome = "user"
Rpc == http_response.body.rpc
ErrorCode == IF Rpc.error.null THEN 0 ELSE Rpc.error.code

\* params.name names a registered tool
NamesRegisteredTool(params) ==
    /\ params.t = "dict"
    /\ params.name.t = "str"
    /\ params.name.s \in {tl.name : tl \in default_tools}

\* C11: an authenticated tools/call whose params.name is not a registered tool
\* name (a missing name included) is answered 200 with the error code -32602
\* and no result, never 500, with no tool handler invoked; and -32602 is
\* given in this case only.
C11_UnknownToolIsInvalidParams ==
    Handled =>
        /\ (mcp_request.method = "tools/call" /\ ~NamesRegisteredTool(mcp_request.params)) =>
              /\ http_response.status_code = 200
              /\ ErrorCode = -32602
              /\ Rpc.result.null
              /\ invoked = NoneInvoked
        /\ ErrorCode = -32602 =>
              (mcp_request.method = "tools/call" /\ ~NamesRegisteredTool(mcp_request.params))

\* the six methods the dispatcher names
NamedMethods ==
    {"initialize", "notifications/initialized", "tools/list", "tools/call",
     "prompts/list", "resources/list"}

\* C12: initialize, tools/list, prompts/list and resources/list yield a result
\* whatever the params (prompts and resources an empty array); every method
\* other than the six named ones yields the error -32601 with no tool
\* invoked; none of the six yields -32601.
C12_TransitionTable ==
    Handled =>
        /\ mcp_request.method \in {"initialize", "tools/list", "prompts/list", "resources/list"} =>
              /\ ~Rpc.result.null
              /\ Rpc.error.null
        /\ mcp_request.method = "prompts/list" =>
              Rpc.result.keys = {"prompts"} /\ Rpc.result.list = <<>>
        /\ mcp_request.method = "resources/list" =>
              Rpc.result.keys = {"resources"} /\ Rpc.result.list = <<>>
        /\ mcp_request.method \notin NamedMethods =>
              /\ ErrorCode = -32601
              /\ Rpc.result.null
              /\ invoked = NoneInvoked
        /\ ErrorCode = -32601 => mcp_request.method \notin NamedMethods

\* a method that differs from a named one in letter case only is not found,
\* with params that name a tool
C12_Witness ==
    /\ Handled
    /\ mcp_request.method = "Initialize"
    /\ NamesRegisteredTool(mcp_request.params)
    /\ ErrorCode = -32601
    /\ http_response.status_code = 200

\* what the registry made of the tools/call in progress
ToolOutcome == execute_tool(tool_call.tool_name, tool_call.arguments)

\* C13: when tools/call names a registered tool, the response is a successful
\* envelope (result, no error, status 200) whose result carries the content
\* and the flag isError: set when the tool outcome is a tool-level failure,
\* not set when it is a success.
C13_ToolFailureFlagged ==
    (Handled /\ mcp_request.method = "tools/call"
        /\ NamesRegisteredTool(mcp_request.params)) =>
        /\ http_response.status_code = 200
        /\ ~Rpc.result.null
        /\ Rpc.error.null
        /\ Rpc.result.content = ToolOutcome.result.content
        /\ "isError" \in Rpc.result.keys
        /\ Rpc.result.isError = ToolOutcome.result.isError

\* C14: every completed response of the dispatcher, on every branch and the
\* catch-all, has exactly one of result and error present (non-null).
C14_ExactlyOneOfResultAndError ==
    Handled =>
        /\ http_response.body.kind = "jsonrpc"
        /\ Rpc.result.null # Rpc.error.null

\* the acknowledgement of a notification: its result is the empty object
C14_Witness ==
    /\ Handled
    /\ mcp_request.method = "notifications/initialized"
    /\ Rpc.result = ResultObject({})
    /\ Rpc.error.null

\* C15: the id of the response equals the id of the request, for every method
\* and every id value (any text, the empty one included, any number, 0
\* included, or none); a request without id gets a response without id.
C15_IdEchoedVerbatim ==
    Handled => Rpc.id = mcp_request.id

\* the catch-all was taken: an exception left the try block and was logged
CatchAll == logged # <<>>

C17_InternalErrorIsOpaque ==
    (Handled /\ CatchAll) =>
        /\ ErrorCode = -32603
        /\ Rpc.error.message = <<"An error occurred processing your request">>
        /\ Rpc.error.error_id = logged[Len(logged)].error_id

\* the version the server declares: the one initialize returns, which is the
\* one of the metadata
DeclaredVersion == InitializeResponse(NoRequest).body.rpc.result.protocolVersion

\* C18: every response of the /mcp route (GET, HEAD, and every dispatcher
\* branch of POST) carries the header MCP-Protocol-Version with the declared
\* protocol version.
C18_VersionHeaderOnEveryResponse ==
    (stage = "done" /\ (http_request.method \in {"GET", "HEAD"} \/ Handled)) =>
        http_response.mcp_protocol_version = DeclaredVersion

(* ====================== properties of the limiter ===================== *)

\* C19: for a route limited to N per minute and any interleaving of requests,
\* for each client key at most N requests are let through in a window and the
\* requests beyond N are rejected (rejections start only after N were let
\* through); other keys are not affected, and the count starts again with the
\* next window.
C19_AtMostNPerKeyAndWindow ==
    \A c \in Cells :
        LimitOf(c[2]) # 0 =>
            /\ tally[c].allowed <= LimitOf(c[2])
            /\ tally[c].rejected > 0 => tally[c].allowed = LimitOf(c[2])

\* the limit the specification gives each route, per minute (100 is the
\* global default for a route without a class of its own)
ClaimedLimit(route) ==
    CASE route \in {"GET /.well-known/oauth-authorization-server",
                    "GET /.well-known/oauth-protected-resource"} -> 10
      [] route = "POST /register" -> 5
      [] route = "GET /.well-known/mcp" -> 20
      [] route = "POST /mcp" -> 50
      [] route = "POST /v1/contexts" -> 5
      [] route = "GET /v1/contexts" -> 10
      [] route = "GET /health" -> 100
      [] OTHER -> 100

\* C20: every served route is rate-limited for every client key, at the limit
\* the specification lists for it or at the global default: no key gets more
\* requests of a route through in one minute than that limit.
C20_EveryRouteLimited ==
    \A c \in Cells : tally[c].allowed <= ClaimedLimit(c[2])


\* the key the specification gives a request: the trimmed first entry of
\* X-Forwarded-For when the header has a value, else X-Real-IP when it has
\* a value, else the address of the peer
FirstEntry(h) == Strip(h.x_forwarded_for[1])
PriorityKey(h) ==
    CASE h.x_forwarded_for # NoHeader /\ h.x_forwarded_for # << <<>> >> -> FirstEntry(h)
      [] OTHER -> IF Len(h.x_real_ip) > 0 THEN h.x_real_ip ELSE <<h.client_host>>

\* C21: the request a route's decorator checks is counted under the client
\* key of the priority X-Forwarded-For (trimmed first entry), X-Real-IP, peer
\* address: the counts of that key and route change, whatever the lower
\* sources say.
C21_KeyByHeaderPriority ==
    [][\A i \in 1..MaxInFlight :
          (waiting[i] # NotWaiting /\ waiting'[i] = NotWaiting) =>
              LET cell == <<PriorityKey(waiting[i].headers), waiting[i].route>>
              IN  /\ cell \in Cells
                  /\ tally'[cell] # tally[cell]
                  /\ \A c \in Cells \ {cell} : tally'[c] = tally[c]]_vars

\* requests of one minute were counted under the forwarded client, under
\* the X-Real-IP address and under the peer address
C21_Witness ==
    \E r \in RouteNames :
        /\ tally[<< <<"10.0.0.2">>, r>>].allowed > 0
        /\ tally[<< <<"10.0.0.3">>, r>>].allowed > 0
        /\ tally[<< <<"10.0.0.1">>, r>>].allowed > 0


(* ======================== properties of the tools ===================== *)

\* the registered tool a tools/call reached, and what validate_arguments
\* makes of its arguments
ToolEntered == CHOOSE tl \in default_tools : tl.name \in invoked.entered
ValidationFails == validate_arguments(ToolEntered, tool_call.arguments).raised # ""

AddOperand(name) == Member(tool_call.arguments.d, name)
BothNumbers ==
    /\ tool_call.arguments.t = "dict"
    /\ {"a", "b"} \subseteq Keys(tool_call.arguments.d)
    /\ AddOperand("a").t = "int" /\ AddOperand("b").t = "int"

\* C23: add returns a non-error result with the text "<a> + <b> = <a+b>"
\* exactly when both a and b are numbers within range; for every other input
\* (a or b missing, a string, a boolean, null, out of range) it returns an
\* error result, and it raises nothing.
C23_AddTotalAndExact ==
    (Handled /\ mcp_request.method = "tools/call" /\ invoked.entered = {"add"}) =>
        /\ ToolOutcome.raised = ""
        /\ Rpc.result.content = ToolOutcome.result.content
        /\ IF BothNumbers
           THEN /\ ~ToolOutcome.result.isError
                /\ Rpc.result.content.text =
                      <<ToString(AddOperand("a").n), " + ", ToString(AddOperand("b").n),
                        " = ", ToString(AddOperand("a").n + AddOperand("b").n)>>
           ELSE ToolOutcome.result.isError


(* ====================== properties of the registry ==================== *)

ToolNamesOf(registry) == {tl.name : tl \in registry}

\* C24: register_tool with a tool whose name is already registered raises
\* ValueError and leaves the registry as it was.
C24_DuplicateNameRefused ==
    [][\A tool \in Registrable \ {NotATool} :
          (/\ tool.name \in ToolNamesOf(tools)
           /\ registry_call'.op = "register_tool" /\ registry_call'.name = tool.name
           /\ tool \in tools') =>
              /\ registry_call'.raised = "ValueError"
              /\ tools' = tools]_vars


(* ================== properties of the client detection ================ *)

\* a pattern of the client is in one of the three cleaned headers
Whitelisted(client, headers) ==
    \E c \in 1..Len(client_patterns) :
        /\ client_patterns[c].client = client
        /\ \E k \in 1..Len(client_patterns[c].patterns) :
              \/ PatternIn(client_patterns[c].patterns[k], Clean(headers.user_agent))
              \/ PatternIn(client_patterns[c].patterns[k], Clean(headers.referer))
              \/ PatternIn(client_patterns[c].patterns[k], Clean(headers.origin))

\* a handler that detects the client has run: GET /mcp, or the handler of an
\* authenticated POST
Detected ==
    /\ stage # "idle"
    /\ http_request.method = "GET" \/ (http_request.method = "POST" /\ user.outcome = "user")

\* C25: detect_client_securely returns the first client of the order julius,
\* claude that has a whitelisted substring in one of the three cleaned
\* headers, and unknown exactly when neither has; it returns nothing else.
C25_FirstWhitelistedClient ==
    Detected =>
        /\ client_type \in {"julius", "claude", "unknown"}
        /\ client_type = "julius" <=> Whitelisted("julius", http_request.headers)
        /\ client_type = "claude" <=>
              (~Whitelisted("julius", http_request.headers)
                  /\ Whitelisted("claude", http_request.headers))
        /\ client_type = "unknown" <=>
              (~Whitelisted("julius", http_request.headers)
                  /\ ~Whitelisted("claude", http_request.headers))

\* claude.ai in User-Agent (once the control character is out) and julius.ai
\* in Origin: the client is julius
C25_Witness ==
    /\ stage = "done" /\ http_request.method = "GET"
    /\ http_request.headers.user_agent = <<"clau", Nul, "de.ai">>
    /\ http_request.headers.origin = <<"https://", "app.", "julius.ai">>
    /\ client_type = "julius"

Answered == pc = "done" /\ ~InProgress /\ answered.route # ""

\* the requests the limiter counted in this minute
RECURSIVE SumCounts(_)
SumCounts(cells) ==
    IF cells = {} THEN 0
    ELSE LET c == CHOOSE c \in cells : TRUE
         IN  storage[c].count + SumCounts(cells \ {c})

\* C27: on a rate-limited protected route the limit is checked before the
\* authentication: a request over the limit is answered 429 with no token
\* verification and no JWKS fetch started for it, and every request,
\* authenticated or not, is counted against the limit of its client key.
C27_LimitBeforeAuthentication ==
    Answered =>
        /\ answered.status_code = 429 => fetched = <<>> /\ result = NoResult
        /\ SumCounts(Cells) = arrived

\* a request over the limit was answered 429 after its token was verified
\* against a key set fetched for it
C27_VerifiedThenRejected ==
    Answered /\ answered.status_code = 429 /\ fetched # <<>> /\ result = Returned


(* ===================== properties of /v1/contexts ===================== *)

\* C30: every stored context has the user_id of the subject of the token
\* that created it and the id it is stored under, so GET /v1/contexts of a
\* user returns exactly the contexts that user created, and none of another
\* user.
C30_ContextsOwnedByCreator ==
    /\ \A i \in 1..Len(contexts_db) :
          /\ DictGet(contexts_db[i].value, "user_id", JNull) = UserId(contexts_db[i].created_by)
          /\ DictGet(contexts_db[i].value, "id", JNull) = JText(contexts_db[i].key, 36)
    /\ \A sub \in {"u1", "u2"} :
          get_contexts(contexts_db, sub) = ContextsCreatedBy(contexts_db, sub)


(* ================= properties of the order of the gates =============== *)

\* validate_cognito_token has ended
Verified == result # NoResult

\* the gates of a verification in their order, given whether the key
\* endpoint counts as trusted: a gate has run only if the gates before it
\* have passed, a failure is that of the first gate that fails, and no gate
\* after it has run
GatesInOrder(trusted) ==
    /\ fetched # <<>> => validate_jwt_token_format(call.token) /\ trusted
    /\ rsa_key # NoKey => Len(fetched) = 1
    /\ nowDecode # NoTime => rsa_key # NoKey
    /\ nowPolicy # NoTime =>
          nowDecode # NoTime /\ DecodeAndValidate(call.token, rsa_key, call.cfg, nowDecode).ok
    /\ (Verified /\ ~validate_jwt_token_format(call.token)) =>
          result.kind = "MalformedToken"
    /\ (Verified /\ validate_jwt_token_format(call.token) /\ ~trusted) =>
          result.kind = "UntrustedKeySource"
    /\ (Verified /\ result.kind \in {"MalformedToken", "UntrustedKeySource"}) =>
          fetched = <<>>
    /\ (Verified /\ result.kind \in {"MalformedToken", "UntrustedKeySource",
                                     "KeySourceUnavailable", "UnknownSigningKey"}) =>
          rsa_key = NoKey /\ nowDecode = NoTime /\ nowPolicy = NoTime
    /\ (Verified /\ result.kind = "KeySourceUnavailable") => Len(fetched) = 1
    /\ (Verified /\ result.kind = "UnknownSigningKey") =>
          Len(fetched) = 1 /\ ResolveKey(call.token, jwks) = NoKey
    /\ (Verified /\ nowDecode # NoTime
            /\ ~DecodeAndValidate(call.token, rsa_key, call.cfg, nowDecode).ok) =>
          /\ result = RaiseDecode(DecodeAndValidate(call.token, rsa_key, call.cfg, nowDecode))
          /\ nowPolicy = NoTime
    /\ (Verified /\ nowPolicy # NoTime) =>
          IF PolicyFailure(call.token.claims, call.required, nowPolicy) = ""
          THEN result = Returned
          ELSE result.kind = PolicyFailure(call.token.claims, call.required, nowPolicy)

\* C28: within one verification the gates run in the order structural check,
\* key-endpoint trust check, key-set fetch, key lookup, signature and
\* registered-claim check, policy checks; the first failing gate ends the
\* verification and is the failure reported; a malformed token or an
\* endpoint that is not the identity provider's never causes a fetch.
C28_GatesInOrder == GatesInOrder(IdentityProviderUrl(call.cfg.jwks_url))

\* the same order with the trust check as the code makes it (a URL that
\* starts with https://cognito-idp. and contains .amazonaws.com passes)
C28_GatesInOrderAsChecked == GatesInOrder(~JwksUrlRefused(call.cfg.jwks_url))


\* C29: a call of validate_cognito_token issues at most one key-set fetch
\* and does not retry (a timeout or an error status ends it as key source
\* unavailable); it starts without a key set or a key of an earlier call; an
\* accepted token was verified under a key that the key set fetched in this
\* call lists for the token's key id, so a token whose key the identity
\* provider has removed is refused.
C29_OneFetchPerCall ==
    /\ Len(fetched) <= 1
    /\ pc = "format" => fetched = <<>> /\ jwks = <<>> /\ rsa_key = NoKey /\ result = NoResult
    /\ (Verified /\ result.reason \in {"TimeoutException", "HTTPStatusError"}) =>
          /\ result.kind = "KeySourceUnavailable"
          /\ Len(fetched) = 1 /\ jwks = <<>> /\ rsa_key = NoKey /\ nowDecode = NoTime
    /\ Accepted =>
          /\ fetched = <<call.cfg.jwks_url>>
          /\ \E o \in FetchOutcomes(call.cfg.jwks_url) : o.status = "ok" /\ o.keys = jwks
          /\ \E i \in 1..Len(jwks) :
                jwks[i].kid = call.token.header.kid /\ jwks[i].key = rsa_key
          /\ VerifySignature("RS256", rsa_key, call.token.sig)
    /\ (Verified /\ fetched # <<>>
            /\ ~\E i \in 1..Len(jwks) : jwks[i].kid = call.token.header.kid) =>
          result.state = "raised"

\* the token the identity provider issued under k1, presented after k1 was
\* removed from the key set: one fetch, and the token is refused
C29_Witness ==
    /\ Verified
    /\ call.token = BaseToken
    /\ Len(fetched) = 1 /\ jwks = RotatedJwks
    /\ result.kind = "UnknownSigningKey"

====
